---- MODULE Spec2Model ----
(***************************************************************************)
(* f-promise (src/src/index.ts): coroutines (fibers) multiplexed over the  *)
(* single-threaded event loop by run/wait, and the utilities built on      *)
(* them: handshake, funnel, Queue, continuation-local context.             *)
(*                                                                         *)
(* Conventions.  Fibers are 1..NumFibers, 0 is "no fiber"/undefined.       *)
(* Values are naturals, 0 is undefined.  Errors are strings, "" is "no     *)
(* error" (a falsy err in the node callback convention).  Contexts are     *)
(* naturals, MainCx is the context the process starts with.                *)
(***************************************************************************)
EXTENDS Integers, Sequences, FiniteSets, TLC

NumFibers == 3
Fibers == 1..NumFibers
MainCx == 0

VARIABLES
    \* ---- run/wait engine
    pc,          \* pc[f]: where fiber f stands in its program
    role,        \* role[f]: the program fiber f runs
    stack,       \* fibers being executed, fibers.current first; <<>> = event loop;
                 \* with each the cx kept by who started it (run) or resumed it
    context,     \* globals.context
    wcx,         \* wcx[f]: local cx of the wait() fiber f is suspended in
    ret,         \* ret[f]: what the last resumption delivered to f
    promise,     \* promise[f]: the promise returned by run for fiber f
    immq,        \* setImmediate queue
    tickq,       \* process.nextTick queue
    pend,        \* fibers whose callback-style operation (timer, I/O) is in flight
    \* ---- funnel
    fmax,        \* max argument of funnel(max)
    active, fqueue, closed,
    admitted,    \* admitted[f]: f went through active++ and not yet active--
    hs,          \* hs[h]: the handshake allocated by the overflow of fiber h
    flog,        \* what happened at the funnel, in order: <<[ev, fiber]>> with ev
                 \* "call" (fun(fn) is called), "enq" (queue.push(hk)), "wake"
                 \* (hk.notify()), "start" (fn is called), "exit" (fn is left)
    atClose,     \* the callers queued, notified and not yet resumed, and
                 \* executing fn when close() was called
    \* ---- a handshake shared by the fibers
    hk,          \* its callback and notified
    hkOps,       \* number of wait() and notify() calls made on it
    hkLast,      \* the last call made on it
    hkNotifies,  \* number of notify() calls made on it
    hkSince,     \* notify() calls since the last wait(), made with no fiber blocked
    hkAt,        \* hkAt[f]: hkSince and hkNotifies when f last called wait()
    \* ---- a Queue shared by the fibers
    qmax,        \* _max
    q,           \* _q
    qcb,         \* _callback: the fiber whose read() is pending, or 0
    pendingWrites, \* _pendingWrites: <<[fiber, item]>>
    todo,        \* todo[f]: read() or write() calls f still has to make
    todo0,       \* todo0[f]: the number f started with
    nitems,      \* items handed to write() and put() so far; the next is nitems + 1
    nends,       \* end() calls so far
    written,     \* the items written, in the order the queue took them: a write()
                 \* or put() it accepted at once, a blocked write() it released
    readlog,     \* the items read() returned, in the order it returned them
    nremoved,    \* number of items read() took out of _q
    wAt,         \* wAt[f]: was the queue full, and nremoved, when f last called write()
    nputs,       \* put() calls made by the program (not those inside write())
    lastPut,     \* item, force and result of the last of them
    witem,       \* witem[f]: the item of the write() call f is in, 0 when in none
    wdone,       \* the items whose write() call has returned
    nadj,        \* adjust() calls so far
    adjFilled,   \* an adjust() installed a non-empty _q while a reader was pending
    \* ---- functions wrapped by eventHandler
    eh,          \* eh[f]: the handlers f is executing, innermost first: who
                 \* called the wrapped function (0: code outside any fiber),
                 \* context() in the caller, and how many withContext calls f
                 \* was inside when the handler started
    ncalls,      \* calls of wrapped functions so far
    \* ---- fibers running user code: wait, withContext, run
    ppend,       \* fibers whose awaited promise is not settled yet
    cxstack,     \* cxstack[f]: oldContext of the withContext calls f is inside
    exc,         \* exc[f]: the error propagating in f, "" when none
    nwaits,      \* wait calls made so far
    nwith,       \* withContext calls made so far
    awaited,     \* awaited[f]: how the operation f waits on completed
    wres,        \* wres[f]: what the last wait call of f did at its call site
    cxBefore,    \* cxBefore[f]: context() just before the wait call f is in
    result,      \* result[f]: what the body of f returned
    \* ---- map(collection, fn) called by fiber 1
    mkids,       \* the fibers run for the items of the collection, in its order
    allp,        \* the promise of Promise.all
    mres,        \* the array Promise.all fills, 0 where nothing is stored yet
    mseen,       \* the indexes whose promise Promise.all has seen settled
    mapout,      \* what the map call did: the array it returned or the error
    \* ---- code running outside any fiber
    toperrs,     \* the errors thrown to event-loop callbacks by wait, withContext
    \* ---- history of the contexts
    cx0,         \* cx0[f]: context() when the body of f started
    cxarg        \* cxarg[f]: the cx arguments of the withContext calls f is
                 \* inside, innermost first

engineVars == <<pc, role, stack, context, wcx, ret, promise, immq, tickq, pend>>
funnelVars == <<fmax, active, fqueue, closed, admitted, hs>>
funnelHist == <<flog, atClose>>
hkVars == <<hk, hkOps, hkLast, hkNotifies, hkSince, hkAt>>
queueVars == <<qmax, q, qcb, pendingWrites>>
queueHist == <<todo, todo0, nitems, nends, written, readlog, nremoved, wAt, nputs, lastPut,
               witem, wdone>>
userVars == <<ppend, cxstack, exc, nwaits, nwith, awaited, wres, cxBefore, result>>
mapVars == <<mkids, allp, mres, mseen, mapout>>
topVars == <<toperrs>>
cxHist == <<cx0, cxarg>>
adjVars == <<nadj, adjFilled>>
ehVars == <<eh, ncalls>>
vars == <<engineVars, funnelVars, funnelHist, hkVars, queueVars, queueHist, userVars,
          mapVars, topVars, cxHist, adjVars, ehVars>>
\* what the actions of one component leave alone
notFunnel == <<hkVars, queueVars, queueHist, userVars, mapVars, topVars, cxHist, adjVars, ehVars>>
notHk == <<funnelVars, funnelHist, queueVars, queueHist, userVars, mapVars, topVars,
           cxHist, adjVars, ehVars>>
notQueue == <<funnelVars, funnelHist, hkVars, userVars, mapVars, topVars, cxHist, adjVars, ehVars>>
notUserCx == <<funnelVars, funnelHist, hkVars, queueVars, queueHist, mapVars, topVars,
               adjVars, ehVars>>
notUser == <<notUserCx, cxHist>>
notMap == <<hkVars, queueVars, queueHist, userVars, topVars, cxHist, adjVars, ehVars>>

----------------------------------------------------------------------------
(* run/wait engine *)

Current == IF stack = <<>> THEN 0 ELSE Head(stack).fiber

NoRet == [err |-> "", val |-> 0]
Pending == [state |-> "pending", err |-> "", val |-> 0]
Resolved(v) == [state |-> "resolved", err |-> "", val |-> v]
Rejected(e) == [state |-> "rejected", err |-> e, val |-> 0]

\* a completion: the fiber whose wait callback is called, and its arguments
Cb(f, e, v) == [fiber |-> f, err |-> e, val |-> v]

\* RunSpawn that keeps no cx: the caller gets the initial context back
RunSpawnNoSave(f) ==
    /\ stack' = <<[fiber |-> f, saved |-> MainCx, by |-> "run"]>> \o stack
    /\ UNCHANGED context

\* run: the new fiber starts on top of the caller, which keeps cx to restore it
RunSpawn(f) ==
    /\ stack' = <<[fiber |-> f, saved |-> context, by |-> "run"]>> \o stack
    /\ UNCHANGED context

\* WaitYield without the save of globals.context
WaitYieldNoSave(f) ==
    /\ UNCHANGED wcx
    /\ stack' = Tail(stack)
    /\ context' = Head(stack).saved

\* wait, after the awaitable is registered: cx = globals.context; yield.
\* Control goes back to whoever resumed the fiber, who restores its own cx.
WaitYield(f) ==
    /\ wcx' = [wcx EXCEPT ![f] = context]
    /\ stack' = Tail(stack)
    /\ context' = Head(stack).saved

\* Resume that always takes the fiber.run branch
ResumeDropsError(c) ==
    /\ stack' = <<[fiber |-> c.fiber, saved |-> context, by |-> "resume"]>> \o stack
    /\ context' = wcx[c.fiber]
    /\ ret' = [ret EXCEPT ![c.fiber] = [err |-> "", val |-> c.val]]

\* the resumption: cx = globals.context; fiber.run(res) / fiber.throwInto(err);
\* in the fiber, wait's finally restores the cx it saved before yielding
Resume(c) ==
    /\ stack' = <<[fiber |-> c.fiber, saved |-> context, by |-> "resume"]>> \o stack
    /\ context' = wcx[c.fiber]
    /\ ret' = [ret EXCEPT ![c.fiber] = [err |-> c.err, val |-> c.val]]

\* FiberEnd without the catch of run's fiber body: a throwing fn settles nothing
FiberEndNoCatch(f, outcome) ==
    /\ promise' = [promise EXCEPT ![f] =
                       IF outcome.state = "rejected" THEN Pending ELSE outcome]
    /\ stack' = Tail(stack)
    /\ context' = Head(stack).saved

\* the fiber's body returns or throws: the promise settles, the fiber is over
\* and control goes back to whoever resumed it, who restores its own cx
FiberEnd(f, outcome) ==
    /\ promise' = [promise EXCEPT ![f] = outcome]
    /\ stack' = Tail(stack)
    /\ context' = Head(stack).saved

InitEngine ==
    /\ pc = [f \in Fibers |-> "unborn"]
    /\ role = [f \in Fibers |-> "none"]
    /\ stack = <<>>
    /\ context = MainCx
    /\ wcx = [f \in Fibers |-> MainCx]
    /\ ret = [f \in Fibers |-> NoRet]
    /\ promise = [f \in Fibers |-> Pending]
    /\ immq = <<>>
    /\ tickq = <<>>
    /\ pend = {}

\* where a fiber suspended at pc continues once resumed
AfterWait(p) ==
    CASE p = "ovf" -> "woken"
      [] p = "sleep" -> "slept"
      [] p = "hwait" -> "huser"
      [] p = "qwait" -> "quser"
      [] p = "w" -> "r"
      [] OTHER -> p

\* event loop: the head of the setImmediate queue runs; every closure the
\* library passes to setImmediate calls a wait callback, which defers the
\* resumption with process.nextTick
Immediate ==
    /\ stack = <<>> /\ tickq = <<>> /\ immq # <<>>
    /\ immq' = Tail(immq)
    /\ tickq' = Append(tickq, Head(immq))
    /\ UNCHANGED <<pc, role, stack, context, wcx, ret, promise, pend>>

\* event loop: the head of the nextTick queue runs and resumes its fiber
Tick ==
    /\ stack = <<>> /\ tickq # <<>>
    /\ LET c == Head(tickq) IN
        /\ Resume(c)
        /\ pc' = [pc EXCEPT ![c.fiber] = AfterWait(pc[c.fiber])]
    /\ tickq' = Tail(tickq)
    /\ UNCHANGED <<role, wcx, promise, immq, pend>>

\* event loop: a timer or I/O operation completes and calls the wait callback
ExtComplete(f, e, v) ==
    /\ stack = <<>> /\ f \in pend
    /\ pend' = pend \ {f}
    /\ tickq' = Append(tickq, Cb(f, e, v))
    /\ UNCHANGED <<pc, role, stack, context, wcx, ret, promise, immq>>

----------------------------------------------------------------------------
(* handshake *)

NewHandshake == [callback |-> 0, notified |-> FALSE]

\* HsWait without the 'already waiting' check: the waiter is overwritten
HsWaitNoCheck(h, f) ==
    IF h.notified
    THEN [threw |-> FALSE, sched |-> TRUE,
          hk |-> [callback |-> 0, notified |-> FALSE]]
    ELSE [threw |-> FALSE, sched |-> FALSE,
          hk |-> [callback |-> f, notified |-> FALSE]]

\* HsWait that registers its callback without looking at the buffered flag
HsWaitIgnoresFlag(h, f) ==
    IF h.callback # 0 THEN [threw |-> TRUE, sched |-> FALSE, hk |-> h]
    ELSE [threw |-> FALSE, sched |-> FALSE,
          hk |-> [callback |-> f, notified |-> h.notified]]

\* HsWait that schedules its callback at once, notified or not
HsWaitAlwaysSched(h, f) ==
    IF h.callback # 0 THEN [threw |-> TRUE, sched |-> FALSE, hk |-> h]
    ELSE [threw |-> FALSE, sched |-> TRUE,
          hk |-> [callback |-> 0, notified |-> FALSE]]

\* the thunk hs.wait() hands to wait, called by fiber f
HsWait(h, f) ==
    IF h.callback # 0 THEN [threw |-> TRUE, sched |-> FALSE, hk |-> h]
    ELSE IF h.notified
         THEN [threw |-> FALSE, sched |-> TRUE,
               hk |-> [callback |-> 0, notified |-> FALSE]]
         ELSE [threw |-> FALSE, sched |-> FALSE,
               hk |-> [callback |-> f, notified |-> FALSE]]

\* HsNotify that forgets a notification made while nobody waits
HsNotifyNoBuffer(h) ==
    IF h.callback = 0
    THEN [sched |-> 0, hk |-> h]
    ELSE [sched |-> h.callback, hk |-> [callback |-> 0, notified |-> h.notified]]

\* HsNotify that forgets the registered waiter instead of scheduling it
HsNotifyDropsWaiter(h) ==
    IF h.callback = 0
    THEN [sched |-> 0, hk |-> [callback |-> 0, notified |-> TRUE]]
    ELSE [sched |-> 0, hk |-> [callback |-> 0, notified |-> h.notified]]

\* hs.notify(): sched is the fiber whose callback goes to setImmediate, or 0
HsNotify(h) ==
    IF h.callback = 0
    THEN [sched |-> 0, hk |-> [callback |-> 0, notified |-> TRUE]]
    ELSE [sched |-> h.callback, hk |-> [callback |-> 0, notified |-> h.notified]]

----------------------------------------------------------------------------
(* funnel *)

defaultSize == 4
MaxOf(m) == IF m = 0 THEN defaultSize ELSE m
FunnelMaxes == {-1, 0, 1, 2}
ErrClosed == "cannot execute: funnel has been closed"
ErrFn == "fn failed"

InFn(f) == pc[f] \in {"infn", "sleep", "slept"}

Ev(e, f) == [ev |-> e, fiber |-> f]

\* code that may use the funnel runs: an event-loop callback, or the fn of a
\* caller that is executing
FunnelCallSite ==
    IF stack = <<>> THEN TRUE ELSE pc[Head(stack).fiber] \in {"infn", "slept"}

\* Overflow that puts the new handshake at the head of the queue
OverflowPushFront(f) ==
    /\ hs' = [hs EXCEPT ![f] = HsWait(NewHandshake, f).hk]
    /\ fqueue' = <<f>> \o fqueue
    /\ pc' = [pc EXCEPT ![f] = "ovf"]
    /\ WaitYield(f)
    /\ flog' = Append(flog, Ev("enq", f))
    /\ UNCHANGED <<active, admitted, promise, ret>>

\* overflow, up to hk.wait(): a fresh handshake is queued and waited on
Overflow(f) ==
    /\ hs' = [hs EXCEPT ![f] = HsWait(NewHandshake, f).hk]
    /\ fqueue' = Append(fqueue, f)
    /\ pc' = [pc EXCEPT ![f] = "ovf"]
    /\ WaitYield(f)
    /\ flog' = Append(flog, Ev("enq", f))
    /\ UNCHANGED <<active, admitted, promise, ret>>

\* TryEnter admitting one caller too many
TryEnterOffByOne(f) ==
    IF active <= MaxOf(fmax)
    THEN /\ active' = active + 1
         /\ admitted' = [admitted EXCEPT ![f] = TRUE]
         /\ pc' = [pc EXCEPT ![f] = "infn"]
         /\ flog' = Append(flog, Ev("start", f))
         /\ UNCHANGED <<stack, context, wcx, ret, promise, fqueue, hs>>
    ELSE Overflow(f)

\* TryEnter that keeps one slot free: a caller is admitted below max - 1 only
TryEnterKeepsSlotFree(f) ==
    IF active + 1 < MaxOf(fmax)
    THEN /\ active' = active + 1
         /\ admitted' = [admitted EXCEPT ![f] = TRUE]
         /\ pc' = [pc EXCEPT ![f] = "infn"]
         /\ flog' = Append(flog, Ev("start", f))
         /\ UNCHANGED <<stack, context, wcx, ret, promise, fqueue, hs>>
    ELSE Overflow(f)

\* tryEnter, up to the call of fn
TryEnter(f) ==
    IF active < MaxOf(fmax)
    THEN /\ active' = active + 1
         /\ admitted' = [admitted EXCEPT ![f] = TRUE]
         /\ pc' = [pc EXCEPT ![f] = "infn"]
         /\ flog' = Append(flog, Ev("start", f))
         /\ UNCHANGED <<stack, context, wcx, ret, promise, fqueue, hs>>
    ELSE Overflow(f)

\* the caller throws 'funnel has been closed' out of its run body
FailClosed(f) ==
    /\ pc' = [pc EXCEPT ![f] = "failed"]
    /\ FiberEnd(f, Rejected(ErrClosed))
    /\ UNCHANGED <<wcx, ret, active, admitted, fqueue, hs, flog>>

\* run(() => fun(fn)): a caller is spawned, from the event loop or from
\* inside the fn of a running caller
FRun(f) ==
    /\ pc[f] = "unborn"
    /\ FunnelCallSite
    /\ pc' = [pc EXCEPT ![f] = "call"]
    /\ role' = [role EXCEPT ![f] = "caller"]
    /\ RunSpawn(f)
    /\ flog' = Append(flog, Ev("call", f))
    /\ UNCHANGED <<wcx, ret, promise, immq, tickq, pend>>
    /\ UNCHANGED <<funnelVars, atClose, notFunnel>>

\* FunCall without the test of max < 0: every call goes through tryEnter
FunCallNoUnlimited(f) ==
    /\ Current = f /\ pc[f] = "call"
    /\ IF closed THEN FailClosed(f) ELSE TryEnter(f)
    /\ UNCHANGED <<role, immq, tickq, pend, fmax, closed, atClose, notFunnel>>

\* fun(fn)
FunCall(f) ==
    /\ Current = f /\ pc[f] = "call"
    /\ IF closed THEN FailClosed(f)
       ELSE IF fmax < 0
            THEN /\ pc' = [pc EXCEPT ![f] = "infn"]
                 /\ flog' = Append(flog, Ev("start", f))
                 /\ UNCHANGED <<stack, context, wcx, ret, promise,
                                active, admitted, fqueue, hs>>
            ELSE TryEnter(f)
    /\ UNCHANGED <<role, immq, tickq, pend, fmax, closed, atClose, notFunnel>>

\* OverflowResume without the test of closed
OverflowResumeNoCheck(f) ==
    /\ Current = f /\ pc[f] = "woken"
    /\ TryEnter(f)
    /\ UNCHANGED <<role, immq, tickq, pend, fmax, closed, atClose, notFunnel>>

\* overflow, after hk.wait() returned
OverflowResume(f) ==
    /\ Current = f /\ pc[f] = "woken"
    /\ IF closed THEN FailClosed(f) ELSE TryEnter(f)
    /\ UNCHANGED <<role, immq, tickq, pend, fmax, closed, atClose, notFunnel>>

\* fn sleeps: wait(cb => setTimeout(cb, n))
FnSleep(f) ==
    /\ Current = f /\ pc[f] = "infn"
    /\ pend' = pend \cup {f}
    /\ pc' = [pc EXCEPT ![f] = "sleep"]
    /\ WaitYield(f)
    /\ UNCHANGED <<role, ret, promise, immq, tickq>>
    /\ UNCHANGED <<funnelVars, funnelHist, notFunnel>>

\* FnExit whose finally takes the last handshake of the queue: queue.pop()
FnExitNotifiesLast(f, e) ==
    /\ Current = f /\ pc[f] \in {"infn", "slept"}
    /\ IF admitted[f]
       THEN /\ active' = active - 1
            /\ admitted' = [admitted EXCEPT ![f] = FALSE]
            /\ IF fqueue # <<>>
               THEN LET h == fqueue[Len(fqueue)]
                        n == HsNotify(hs[h]) IN
                    /\ fqueue' = SubSeq(fqueue, 1, Len(fqueue) - 1)
                    /\ hs' = [hs EXCEPT ![h] = n.hk]
                    /\ immq' = IF n.sched = 0 THEN immq
                               ELSE Append(immq, Cb(n.sched, "", 0))
                    /\ flog' = flog \o <<Ev("exit", f), Ev("wake", h)>>
               ELSE /\ flog' = Append(flog, Ev("exit", f))
                    /\ UNCHANGED <<fqueue, hs, immq>>
       ELSE /\ flog' = Append(flog, Ev("exit", f))
            /\ UNCHANGED <<active, admitted, fqueue, hs, immq>>
    /\ pc' = [pc EXCEPT ![f] = IF e = "" THEN "done" ELSE "failed"]
    /\ FiberEnd(f, IF e = "" THEN Resolved(f) ELSE Rejected(e))
    /\ UNCHANGED <<role, wcx, ret, tickq, pend, fmax, closed, atClose, notFunnel>>

\* FnExit whose finally shifts the queue and does not notify the handshake
FnExitNoNotify(f, e) ==
    /\ Current = f /\ pc[f] \in {"infn", "slept"}
    /\ IF admitted[f]
       THEN /\ active' = active - 1
            /\ admitted' = [admitted EXCEPT ![f] = FALSE]
            /\ IF fqueue # <<>>
               THEN LET h == Head(fqueue)
                        n == HsNotify(hs[h]) IN
                    /\ fqueue' = Tail(fqueue)
                    /\ UNCHANGED <<hs, immq>>
                    /\ flog' = flog \o <<Ev("exit", f), Ev("wake", h)>>
               ELSE /\ flog' = Append(flog, Ev("exit", f))
                    /\ UNCHANGED <<fqueue, hs, immq>>
       ELSE /\ flog' = Append(flog, Ev("exit", f))
            /\ UNCHANGED <<active, admitted, fqueue, hs, immq>>
    /\ pc' = [pc EXCEPT ![f] = IF e = "" THEN "done" ELSE "failed"]
    /\ FiberEnd(f, IF e = "" THEN Resolved(f) ELSE Rejected(e))
    /\ UNCHANGED <<role, wcx, ret, tickq, pend, fmax, closed, atClose, notFunnel>>

\* FnExit without the finally: active-- and the notification of the head of
\* the queue happen only when fn returns
FnExitNoFinally(f, e) ==
    /\ Current = f /\ pc[f] \in {"infn", "slept"}
    /\ IF admitted[f] /\ e = ""
       THEN /\ active' = active - 1
            /\ admitted' = [admitted EXCEPT ![f] = FALSE]
            /\ IF fqueue # <<>>
               THEN LET h == Head(fqueue)
                        n == HsNotify(hs[h]) IN
                    /\ fqueue' = Tail(fqueue)
                    /\ hs' = [hs EXCEPT ![h] = n.hk]
                    /\ immq' = IF n.sched = 0 THEN immq
                               ELSE Append(immq, Cb(n.sched, "", 0))
                    /\ flog' = flog \o <<Ev("exit", f), Ev("wake", h)>>
               ELSE /\ flog' = Append(flog, Ev("exit", f))
                    /\ UNCHANGED <<fqueue, hs, immq>>
       ELSE /\ flog' = Append(flog, Ev("exit", f))
            /\ UNCHANGED <<active, admitted, fqueue, hs, immq>>
    /\ pc' = [pc EXCEPT ![f] = IF e = "" THEN "done" ELSE "failed"]
    /\ FiberEnd(f, IF e = "" THEN Resolved(f) ELSE Rejected(e))
    /\ UNCHANGED <<role, wcx, ret, tickq, pend, fmax, closed, atClose, notFunnel>>

\* fn returns (e = "") or throws e; tryEnter's finally runs when the caller
\* was admitted: active--, and the head of the queue is notified
FnExit(f, e) ==
    /\ Current = f /\ pc[f] \in {"infn", "slept"}
    /\ IF admitted[f]
       THEN /\ active' = active - 1
            /\ admitted' = [admitted EXCEPT ![f] = FALSE]
            /\ IF fqueue # <<>>
               THEN LET h == Head(fqueue)
                        n == HsNotify(hs[h]) IN
                    /\ fqueue' = Tail(fqueue)
                    /\ hs' = [hs EXCEPT ![h] = n.hk]
                    /\ immq' = IF n.sched = 0 THEN immq
                               ELSE Append(immq, Cb(n.sched, "", 0))
                    /\ flog' = flog \o <<Ev("exit", f), Ev("wake", h)>>
               ELSE /\ flog' = Append(flog, Ev("exit", f))
                    /\ UNCHANGED <<fqueue, hs, immq>>
       ELSE /\ flog' = Append(flog, Ev("exit", f))
            /\ UNCHANGED <<active, admitted, fqueue, hs, immq>>
    /\ pc' = [pc EXCEPT ![f] = IF e = "" THEN "done" ELSE "failed"]
    /\ FiberEnd(f, IF e = "" THEN Resolved(f) ELSE Rejected(e))
    /\ UNCHANGED <<role, wcx, ret, tickq, pend, fmax, closed, atClose, notFunnel>>

RECURSIVE NotifyAll(_, _)
\* queue.forEach(hk => hk.notify()): the handshakes after each was notified
NotifyAll(s, h) ==
    IF s = <<>> THEN h
    ELSE NotifyAll(Tail(s), [h EXCEPT ![Head(s)] = HsNotify(h[Head(s)]).hk])

RECURSIVE NotifyAllSched(_, _)
\* the callbacks that forEach passes to setImmediate, in order
NotifyAllSched(s, h) ==
    IF s = <<>> THEN <<>>
    ELSE LET n == HsNotify(h[Head(s)]) IN
         (IF n.sched = 0 THEN <<>> ELSE <<Cb(n.sched, "", 0)>>)
            \o NotifyAllSched(Tail(s), h)

\* Close that drops the queue without notifying its handshakes
CloseNoNotify ==
    /\ FunnelCallSite
    /\ ~closed
    /\ fqueue' = <<>>
    /\ closed' = TRUE
    /\ atClose' =
           [queued |-> {fqueue[i] : i \in 1..Len(fqueue)},
            notified |-> {f \in Fibers : pc[f] \in {"ovf", "woken"}}
                            \ {fqueue[i] : i \in 1..Len(fqueue)},
            infn |-> {f \in Fibers : InFn(f)}]
    /\ UNCHANGED <<pc, role, stack, context, wcx, ret, promise, tickq, pend>>
    /\ UNCHANGED <<fmax, active, admitted, hs, immq, flog, notFunnel>>

\* fun.close()
Close ==
    /\ FunnelCallSite
    /\ ~closed
    /\ hs' = NotifyAll(fqueue, hs)
    /\ immq' = immq \o NotifyAllSched(fqueue, hs)
    /\ fqueue' = <<>>
    /\ closed' = TRUE
    /\ flog' = flog \o [i \in 1..Len(fqueue) |-> Ev("wake", fqueue[i])]
    /\ atClose' =
           [queued |-> {fqueue[i] : i \in 1..Len(fqueue)},
            notified |-> {f \in Fibers : pc[f] \in {"ovf", "woken"}}
                            \ {fqueue[i] : i \in 1..Len(fqueue)},
            infn |-> {f \in Fibers : InFn(f)}]
    /\ UNCHANGED <<pc, role, stack, context, wcx, ret, promise, tickq, pend>>
    /\ UNCHANGED <<fmax, active, admitted, notFunnel>>

InitFunnel ==
    /\ fmax \in FunnelMaxes
    /\ active = 0
    /\ fqueue = <<>>
    /\ closed = FALSE
    /\ admitted = [f \in Fibers |-> FALSE]
    /\ hs = [f \in Fibers |-> NewHandshake]
    /\ flog = <<>>
    /\ atClose = [queued |-> {}, notified |-> {}, infn |-> {}]

InitHk ==
    /\ hk = NewHandshake
    /\ hkOps = 0
    /\ hkLast = [op |-> "none", fiber |-> 0]
    /\ hkNotifies = 0
    /\ hkSince = 0
    /\ hkAt = [f \in Fibers |-> [since |-> 0, notifies |-> 0]]

InitQueue ==
    /\ q = <<>>
    /\ qcb = 0
    /\ pendingWrites = <<>>
    /\ todo = [f \in Fibers |-> 0]
    /\ todo0 = [f \in Fibers |-> 0]
    /\ nitems = 0
    /\ nends = 0
    /\ written = <<>>
    /\ readlog = <<>>
    /\ nremoved = 0
    /\ wAt = [f \in Fibers |-> [full |-> FALSE, removed |-> 0]]
    /\ nputs = 0
    /\ lastPut = [item |-> 0, force |-> FALSE, ok |-> FALSE]
    /\ witem = [f \in Fibers |-> 0]
    /\ wdone = {}
    /\ nadj = 0
    /\ adjFilled = FALSE

NoWait == [kind |-> "none", err |-> "", val |-> 0]

InitUser ==
    /\ ppend = {}
    /\ cxstack = [f \in Fibers |-> <<>>]
    /\ exc = [f \in Fibers |-> ""]
    /\ nwaits = 0
    /\ nwith = 0
    /\ awaited = [f \in Fibers |-> NoRet]
    /\ wres = [f \in Fibers |-> NoWait]
    /\ cxBefore = [f \in Fibers |-> MainCx]
    /\ result = [f \in Fibers |-> 0]
    /\ eh = [f \in Fibers |-> <<>>]
    /\ ncalls = 0

NoMap == [kind |-> "none", err |-> "", val |-> <<>>]

InitMap ==
    /\ mkids = <<>>
    /\ allp = [state |-> "none", err |-> ""]
    /\ mres = <<>>
    /\ mseen = {}
    /\ mapout = NoMap
    /\ toperrs = {}
    /\ cx0 = [f \in Fibers |-> MainCx]
    /\ cxarg = [f \in Fibers |-> <<>>]

InitFunnelSpec ==
    InitEngine /\ InitFunnel /\ InitHk /\ InitQueue /\ InitUser /\ InitMap /\ qmax = -1

FImmediate == Immediate /\ UNCHANGED <<funnelVars, funnelHist, notFunnel>>
FTick == Tick /\ UNCHANGED <<funnelVars, funnelHist, notFunnel>>
FTimer(f) == ExtComplete(f, "", 0) /\ UNCHANGED <<funnelVars, funnelHist, notFunnel>>

NextFunnel ==
    \/ \E f \in Fibers : FRun(f)
    \/ \E f \in Fibers : FunCall(f)
    \/ \E f \in Fibers : OverflowResume(f)
    \/ \E f \in Fibers : FnSleep(f)
    \/ \E f \in Fibers, e \in {"", ErrFn} : FnExit(f, e)
    \/ \E f \in Fibers : FTimer(f)
    \/ Close
    \/ FImmediate
    \/ FTick

SpecFunnel == InitFunnelSpec /\ [][NextFunnel]_vars

\* a funnel that is never closed.  The event loop runs every callback that is
\* queued, every timer fires, the code of a fiber that is running goes on,
\* and fn terminates.
NextFunnelOpen ==
    \/ \E f \in Fibers : FRun(f)
    \/ \E f \in Fibers : FunCall(f)
    \/ \E f \in Fibers : OverflowResume(f)
    \/ \E f \in Fibers : FnSleep(f)
    \/ \E f \in Fibers, e \in {"", ErrFn} : FnExit(f, e)
    \/ \E f \in Fibers : FTimer(f)
    \/ FImmediate
    \/ FTick

FairFunnel ==
    /\ WF_vars(FImmediate) /\ WF_vars(FTick)
    /\ \A f \in Fibers :
        /\ WF_vars(FTimer(f))
        /\ WF_vars(FunCall(f))
        /\ WF_vars(OverflowResume(f))
        /\ WF_vars(\E e \in {"", ErrFn} : FnExit(f, e))

SpecFunnelOpen == InitFunnelSpec /\ [][NextFunnelOpen]_vars /\ FairFunnel

----------------------------------------------------------------------------
(* fibers sharing one handshake: each calls hk.wait() and hk.notify() *)

MaxOps == 4
ErrWaiting == "already waiting"

\* the fibers whose resumption is already on its way
Scheduled ==
    {immq[i].fiber : i \in 1..Len(immq)} \cup {tickq[i].fiber : i \in 1..Len(tickq)}
\* f is suspended in hk.wait() and nothing is on its way to resume it
Blocked(f) == pc[f] = "hwait" /\ f \notin Scheduled

HkCallSite ==
    IF stack = <<>> THEN TRUE ELSE pc[Head(stack).fiber] = "huser"

\* run(() => { ... hk.wait() ... hk.notify() ... })
HRun(f) ==
    /\ pc[f] = "unborn"
    /\ HkCallSite
    /\ pc' = [pc EXCEPT ![f] = "huser"]
    /\ role' = [role EXCEPT ![f] = "hs"]
    /\ RunSpawn(f)
    /\ UNCHANGED <<wcx, ret, promise, immq, tickq, pend>>
    /\ UNCHANGED <<hkVars, notHk>>

\* hk.wait() called by f: the thunk runs, then wait yields; when the thunk
\* throws, the error leaves wait and f's body before anything else happened
HWait(f) ==
    /\ Current = f /\ pc[f] = "huser"
    /\ hkOps < MaxOps
    /\ hkOps' = hkOps + 1
    /\ hkLast' = [op |-> "wait", fiber |-> f]
    /\ hkSince' = 0
    /\ hkAt' = [hkAt EXCEPT ![f] = [since |-> hkSince, notifies |-> hkNotifies]]
    /\ LET r == HsWait(hk, f) IN
        /\ hk' = r.hk
        /\ IF r.threw
           THEN /\ pc' = [pc EXCEPT ![f] = "failed"]
                /\ FiberEnd(f, Rejected(ErrWaiting))
                /\ UNCHANGED <<wcx, immq>>
           ELSE /\ pc' = [pc EXCEPT ![f] = "hwait"]
                /\ immq' = IF r.sched THEN Append(immq, Cb(f, "", 0)) ELSE immq
                /\ WaitYield(f)
                /\ UNCHANGED promise
    /\ UNCHANGED <<role, ret, tickq, pend, hkNotifies, notHk>>

\* hk.notify(), called by a running fiber or by an event-loop callback
HNotify ==
    /\ HkCallSite
    /\ hkOps < MaxOps
    /\ hkOps' = hkOps + 1
    /\ hkLast' = [op |-> "notify", fiber |-> Current]
    /\ hkNotifies' = hkNotifies + 1
    /\ hkSince' = IF \E f \in Fibers : Blocked(f) THEN hkSince ELSE hkSince + 1
    /\ LET n == HsNotify(hk) IN
        /\ hk' = n.hk
        /\ immq' = IF n.sched = 0 THEN immq ELSE Append(immq, Cb(n.sched, "", 0))
    /\ UNCHANGED <<pc, role, stack, context, wcx, ret, promise, tickq, pend>>
    /\ UNCHANGED <<hkAt, notHk>>

\* the body of f returns
HReturn(f) ==
    /\ Current = f /\ pc[f] = "huser"
    /\ pc' = [pc EXCEPT ![f] = "done"]
    /\ FiberEnd(f, Resolved(f))
    /\ UNCHANGED <<role, wcx, ret, immq, tickq, pend>>
    /\ UNCHANGED <<hkVars, notHk>>

HImmediate == Immediate /\ UNCHANGED <<hkVars, notHk>>
HTick == Tick /\ UNCHANGED <<hkVars, notHk>>

InitHandshake ==
    InitEngine /\ InitFunnel /\ InitHk /\ InitQueue /\ InitUser /\ InitMap
        /\ fmax = -1 /\ qmax = -1

NextHandshake ==
    \/ \E f \in Fibers : HRun(f)
    \/ \E f \in Fibers : HWait(f)
    \/ \E f \in Fibers : HReturn(f)
    \/ HNotify
    \/ HImmediate
    \/ HTick

SpecHandshake == InitHandshake /\ [][NextHandshake]_vars

----------------------------------------------------------------------------
(* fibers sharing one Queue: readers call read(), writers call write(),    *)
(* and the program calls put() and end()                                   *)

MaxTodo == 2
MaxItems == 3
MaxEnds == 1
QueueMaxes == {-1, 0, 1, 2}
ErrGetting == "already getting"

\* QPut with the capacity test off by one: a full queue takes one more item
QPutOffByOne(item, force) ==
    IF qcb = 0
    THEN IF qmax >= 0 /\ Len(q) > qmax /\ ~force
         THEN [ok |-> FALSE, q |-> q, cb |-> qcb, sched |-> <<>>]
         ELSE [ok |-> TRUE, q |-> Append(q, item), cb |-> qcb, sched |-> <<>>]
    ELSE [ok |-> TRUE, q |-> q, cb |-> 0, sched |-> <<Cb(qcb, "", item)>>]

\* QPut that applies the capacity test to a forced put as well
QPutIgnoresForce(item, force) ==
    IF qcb = 0
    THEN IF qmax >= 0 /\ Len(q) >= qmax
         THEN [ok |-> FALSE, q |-> q, cb |-> qcb, sched |-> <<>>]
         ELSE [ok |-> TRUE, q |-> Append(q, item), cb |-> qcb, sched |-> <<>>]
    ELSE [ok |-> TRUE, q |-> q, cb |-> 0, sched |-> <<Cb(qcb, "", item)>>]

\* QPut that pushes the item as well when it hands it to the waiting reader,
\* and leaves the reader registered
QPutKeepsReader(item, force) ==
    IF qcb = 0
    THEN IF qmax >= 0 /\ Len(q) >= qmax /\ ~force
         THEN [ok |-> FALSE, q |-> q, cb |-> qcb, sched |-> <<>>]
         ELSE [ok |-> TRUE, q |-> Append(q, item), cb |-> qcb, sched |-> <<>>]
    ELSE [ok |-> TRUE, q |-> Append(q, item), cb |-> qcb,
          sched |-> <<Cb(qcb, "", item)>>]

\* put(item, force): its result, _q and _callback after it, and the closure
\* it hands to setImmediate
QPut(item, force) ==
    IF qcb = 0
    THEN IF qmax >= 0 /\ Len(q) >= qmax /\ ~force
         THEN [ok |-> FALSE, q |-> q, cb |-> qcb, sched |-> <<>>]
         ELSE [ok |-> TRUE, q |-> Append(q, item), cb |-> qcb, sched |-> <<>>]
    ELSE [ok |-> TRUE, q |-> q, cb |-> 0, sched |-> <<Cb(qcb, "", item)>>]

\* the queue is full for a writer: at capacity and no reader to hand the item to
QFull == qcb = 0 /\ qmax >= 0 /\ Len(q) >= qmax

\* put(), end() and run() are called from event-loop callbacks: between two
\* suspensions a fiber makes its own read() or write() and nothing else
QueueCallSite == stack = <<>>

\* run(() => { n times q.read() }) or run(() => { n times q.write(item) });
\* fibers are numbered in the order they are created
QRun(f, r, n) ==
    /\ pc[f] = "unborn"
    /\ \A g \in Fibers : g < f => pc[g] # "unborn"
    /\ QueueCallSite
    /\ pc' = [pc EXCEPT ![f] = "quser"]
    /\ role' = [role EXCEPT ![f] = r]
    /\ todo' = [todo EXCEPT ![f] = n]
    /\ todo0' = [todo0 EXCEPT ![f] = n]
    /\ RunSpawn(f)
    /\ UNCHANGED <<wcx, ret, promise, immq, tickq, pend>>
    /\ UNCHANGED <<queueVars, nitems, nends, written, readlog, nremoved, wAt,
                   nputs, lastPut, witem, wdone, notQueue>>

\* QRead without the 'already getting' check: the pending reader is overwritten
QReadNoCheck(f) ==
    /\ Current = f /\ pc[f] = "quser" /\ role[f] = "reader" /\ todo[f] > 0
    /\ todo' = [todo EXCEPT ![f] = @ - 1]
    /\ IF FALSE
       THEN /\ pc' = [pc EXCEPT ![f] = "failed"]
            /\ FiberEnd(f, Rejected(ErrGetting))
            /\ UNCHANGED <<wcx, immq, q, qcb, pendingWrites, nremoved, written>>
       ELSE /\ pc' = [pc EXCEPT ![f] = "qwait"]
            /\ WaitYield(f)
            /\ UNCHANGED promise
            /\ IF Len(q) > 0
               THEN /\ q' = Tail(q)
                    /\ nremoved' = nremoved + 1
                    /\ qcb' = qcb
                    /\ IF Len(pendingWrites) > 0
                       THEN LET wr == Head(pendingWrites) IN
                            /\ pendingWrites' = Tail(pendingWrites)
                            /\ immq' = immq \o <<Cb(f, "", Head(q)),
                                                 Cb(wr.fiber, "", wr.item)>>
                            /\ written' = Append(written, wr.item)
                       ELSE /\ immq' = Append(immq, Cb(f, "", Head(q)))
                            /\ UNCHANGED <<pendingWrites, written>>
               ELSE /\ qcb' = f
                    /\ UNCHANGED <<q, pendingWrites, immq, nremoved, written>>
    /\ UNCHANGED <<role, ret, tickq, pend, qmax>>
    /\ UNCHANGED <<todo0, nitems, nends, readlog, wAt, nputs, lastPut, witem, wdone,
                   notQueue>>

\* QRead that releases the writer that blocked last: _pendingWrites.pop()
QReadReleasesLast(f) ==
    /\ Current = f /\ pc[f] = "quser" /\ role[f] = "reader" /\ todo[f] > 0
    /\ todo' = [todo EXCEPT ![f] = @ - 1]
    /\ IF qcb # 0
       THEN /\ pc' = [pc EXCEPT ![f] = "failed"]
            /\ FiberEnd(f, Rejected(ErrGetting))
            /\ UNCHANGED <<wcx, immq, q, qcb, pendingWrites, nremoved, written>>
       ELSE /\ pc' = [pc EXCEPT ![f] = "qwait"]
            /\ WaitYield(f)
            /\ UNCHANGED promise
            /\ IF Len(q) > 0
               THEN /\ q' = Tail(q)
                    /\ nremoved' = nremoved + 1
                    /\ qcb' = qcb
                    /\ IF Len(pendingWrites) > 0
                       THEN LET wr == pendingWrites[Len(pendingWrites)] IN
                            /\ pendingWrites' =
                                   SubSeq(pendingWrites, 1, Len(pendingWrites) - 1)
                            /\ immq' = immq \o <<Cb(f, "", Head(q)),
                                                 Cb(wr.fiber, "", wr.item)>>
                            /\ written' = Append(written, wr.item)
                       ELSE /\ immq' = Append(immq, Cb(f, "", Head(q)))
                            /\ UNCHANGED <<pendingWrites, written>>
               ELSE /\ qcb' = f
                    /\ UNCHANGED <<q, pendingWrites, immq, nremoved, written>>
    /\ UNCHANGED <<role, ret, tickq, pend, qmax>>
    /\ UNCHANGED <<todo0, nitems, nends, readlog, wAt, nputs, lastPut, witem, wdone,
                   notQueue>>

\* q.read() called by f: the thunk, then wait yields
QRead(f) ==
    /\ Current = f /\ pc[f] = "quser" /\ role[f] = "reader" /\ todo[f] > 0
    /\ todo' = [todo EXCEPT ![f] = @ - 1]
    /\ IF qcb # 0
       THEN /\ pc' = [pc EXCEPT ![f] = "failed"]
            /\ FiberEnd(f, Rejected(ErrGetting))
            /\ UNCHANGED <<wcx, immq, q, qcb, pendingWrites, nremoved, written>>
       ELSE /\ pc' = [pc EXCEPT ![f] = "qwait"]
            /\ WaitYield(f)
            /\ UNCHANGED promise
            /\ IF Len(q) > 0
               THEN /\ q' = Tail(q)
                    /\ nremoved' = nremoved + 1
                    /\ qcb' = qcb
                    /\ IF Len(pendingWrites) > 0
                       THEN LET wr == Head(pendingWrites) IN
                            /\ pendingWrites' = Tail(pendingWrites)
                            /\ immq' = immq \o <<Cb(f, "", Head(q)),
                                                 Cb(wr.fiber, "", wr.item)>>
                            /\ written' = Append(written, wr.item)
                       ELSE /\ immq' = Append(immq, Cb(f, "", Head(q)))
                            /\ UNCHANGED <<pendingWrites, written>>
               ELSE /\ qcb' = f
                    /\ UNCHANGED <<q, pendingWrites, immq, nremoved, written>>
    /\ UNCHANGED <<role, ret, tickq, pend, qmax>>
    /\ UNCHANGED <<todo0, nitems, nends, readlog, wAt, nputs, lastPut, witem, wdone,
                   notQueue>>

\* QWrite that forces its item in: put(item, true)
QWriteForces(f) ==
    /\ Current = f /\ pc[f] = "quser" /\ role[f] = "writer" /\ todo[f] > 0
    /\ nitems < MaxItems
    /\ todo' = [todo EXCEPT ![f] = @ - 1]
    /\ nitems' = nitems + 1
    /\ wAt' = [wAt EXCEPT ![f] = [full |-> QFull, removed |-> nremoved]]
    /\ LET r == QPut(nitems + 1, TRUE) IN
        /\ q' = r.q
        /\ qcb' = r.cb
        /\ immq' = immq \o r.sched \o <<Cb(f, "", 0)>>
        /\ written' = Append(written, nitems + 1)
        /\ UNCHANGED pendingWrites
    /\ pc' = [pc EXCEPT ![f] = "qwait"]
    /\ WaitYield(f)
    /\ UNCHANGED <<role, ret, promise, tickq, pend, qmax>>
    /\ witem' = [witem EXCEPT ![f] = nitems + 1]
    /\ UNCHANGED <<todo0, nends, readlog, nremoved, nputs, lastPut, wdone, notQueue>>

\* q.write(item) called by f: the thunk, then wait yields
QWrite(f) ==
    /\ Current = f /\ pc[f] = "quser" /\ role[f] = "writer" /\ todo[f] > 0
    /\ nitems < MaxItems
    /\ todo' = [todo EXCEPT ![f] = @ - 1]
    /\ nitems' = nitems + 1
    /\ wAt' = [wAt EXCEPT ![f] = [full |-> QFull, removed |-> nremoved]]
    /\ LET r == QPut(nitems + 1, FALSE) IN
        /\ q' = r.q
        /\ qcb' = r.cb
        /\ IF r.ok
           THEN /\ immq' = immq \o r.sched \o <<Cb(f, "", 0)>>
                /\ written' = Append(written, nitems + 1)
                /\ UNCHANGED pendingWrites
           ELSE /\ pendingWrites' =
                       Append(pendingWrites, [fiber |-> f, item |-> nitems + 1])
                /\ UNCHANGED <<immq, written>>
    /\ pc' = [pc EXCEPT ![f] = "qwait"]
    /\ WaitYield(f)
    /\ UNCHANGED <<role, ret, promise, tickq, pend, qmax>>
    /\ witem' = [witem EXCEPT ![f] = nitems + 1]
    /\ UNCHANGED <<todo0, nends, readlog, nremoved, nputs, lastPut, wdone, notQueue>>

\* the body of f returns once its calls are made
QReturn(f) ==
    /\ Current = f /\ pc[f] = "quser" /\ todo[f] = 0
    /\ pc' = [pc EXCEPT ![f] = "done"]
    /\ FiberEnd(f, Resolved(f))
    /\ UNCHANGED <<role, wcx, ret, immq, tickq, pend>>
    /\ UNCHANGED <<queueVars, queueHist, notQueue>>

\* ok = q.put(item, force)
QPutCall(force) ==
    /\ QueueCallSite
    /\ nitems < MaxItems
    /\ nitems' = nitems + 1
    /\ nputs' = nputs + 1
    /\ LET r == QPut(nitems + 1, force) IN
        /\ q' = r.q
        /\ qcb' = r.cb
        /\ immq' = immq \o r.sched
        /\ lastPut' = [item |-> nitems + 1, force |-> force, ok |-> r.ok]
        /\ written' = IF r.ok THEN Append(written, nitems + 1) ELSE written
    /\ UNCHANGED <<pc, role, stack, context, wcx, ret, promise, tickq, pend>>
    /\ UNCHANGED <<qmax, pendingWrites, todo, todo0, nends, readlog, nremoved,
                   wAt, witem, wdone, notQueue>>

\* QEnd that calls put(undefined) without force
QEndNoForce ==
    /\ QueueCallSite
    /\ nends < MaxEnds
    /\ nends' = nends + 1
    /\ LET r == QPut(0, FALSE) IN
        /\ q' = r.q
        /\ qcb' = r.cb
        /\ immq' = immq \o r.sched
        /\ written' = IF r.ok THEN Append(written, 0) ELSE written
    /\ UNCHANGED <<pc, role, stack, context, wcx, ret, promise, tickq, pend>>
    /\ UNCHANGED <<qmax, pendingWrites, todo, todo0, nitems, readlog, nremoved,
                   wAt, nputs, lastPut, witem, wdone, notQueue>>

\* q.end(): put(undefined, true)
QEnd ==
    /\ QueueCallSite
    /\ nends < MaxEnds
    /\ nends' = nends + 1
    /\ LET r == QPut(0, TRUE) IN
        /\ q' = r.q
        /\ qcb' = r.cb
        /\ immq' = immq \o r.sched
        /\ written' = IF r.ok THEN Append(written, 0) ELSE written
    /\ UNCHANGED <<pc, role, stack, context, wcx, ret, promise, tickq, pend>>
    /\ UNCHANGED <<qmax, pendingWrites, todo, todo0, nitems, readlog, nremoved,
                   wAt, nputs, lastPut, witem, wdone, notQueue>>

QImmediate == Immediate /\ UNCHANGED <<queueVars, queueHist, notQueue>>

\* a resumed reader returns from read() with the item delivered to it, a
\* resumed writer returns from write()
QTick ==
    /\ Tick
    /\ readlog' = IF role[Head(tickq).fiber] = "reader"
                  THEN Append(readlog, Head(tickq).val) ELSE readlog
    /\ LET f == Head(tickq).fiber IN
        IF role[f] = "writer"
        THEN /\ wdone' = wdone \cup {witem[f]}
             /\ witem' = [witem EXCEPT ![f] = 0]
        ELSE UNCHANGED <<witem, wdone>>
    /\ UNCHANGED <<queueVars, todo, todo0, nitems, nends, written, nremoved, wAt,
                   nputs, lastPut, notQueue>>

InitQueueSpec ==
    InitEngine /\ InitFunnel /\ InitHk /\ InitQueue /\ InitUser /\ InitMap
        /\ fmax = -1 /\ qmax \in QueueMaxes

NextQueue ==
    \/ \E f \in Fibers, r \in {"reader", "writer"}, n \in 1..MaxTodo : QRun(f, r, n)
    \/ \E f \in Fibers : QRead(f)
    \/ \E f \in Fibers : QWrite(f)
    \/ \E f \in Fibers : QReturn(f)
    \/ \E force \in BOOLEAN : QPutCall(force)
    \/ QEnd
    \/ QImmediate
    \/ QTick

SpecQueue == InitQueueSpec /\ [][NextQueue]_vars

\* a program that uses read(), write() and put() without force only
NextQueuePlain ==
    \/ \E f \in Fibers, r \in {"reader", "writer"}, n \in 1..MaxTodo : QRun(f, r, n)
    \/ \E f \in Fibers : QRead(f)
    \/ \E f \in Fibers : QWrite(f)
    \/ \E f \in Fibers : QReturn(f)
    \/ QPutCall(FALSE)
    \/ QImmediate
    \/ QTick

SpecQueuePlain == InitQueueSpec /\ [][NextQueuePlain]_vars

----------------------------------------------------------------------------
(* the same Queue, with the program calling adjust() as well *)

MaxAdjust == 1
ErrAdjust == "adjust function does not return array"

\* the transforms handed to adjust: arr => arr.slice().reverse(), arr =>
\* arr.slice(1), () => [], arr => arr.concat([undefined]), () => undefined
AdjustFns == {"reverse", "rest", "clear", "concat", "none"}

Reverse(s) == [i \in 1..Len(s) |-> s[Len(s) + 1 - i]]

\* fn.call(null, this._q): the array fn returns, or "none" when it is no array
ApplyFn(fn, old) ==
    CASE fn = "reverse" -> Reverse(old)
      [] fn = "rest" -> IF old = <<>> THEN <<>> ELSE Tail(old)
      [] fn = "clear" -> <<>>
      [] fn = "concat" -> Append(old, 0)
      [] OTHER -> "none"

\* q.adjust(fn)
QAdjust(fn) ==
    /\ QueueCallSite
    /\ nadj < MaxAdjust
    /\ nadj' = nadj + 1
    /\ LET nq == ApplyFn(fn, q) IN
        IF fn = "none"
        THEN /\ toperrs' = toperrs \cup {ErrAdjust}
             /\ UNCHANGED <<q, adjFilled>>
        ELSE /\ q' = nq
             /\ adjFilled' = (adjFilled \/ (qcb # 0 /\ nq # <<>>))
             /\ UNCHANGED toperrs
    /\ UNCHANGED engineVars
    /\ UNCHANGED <<qmax, qcb, pendingWrites, queueHist>>
    /\ UNCHANGED <<funnelVars, funnelHist, hkVars, userVars, mapVars, cxHist, ehVars>>

\* each fiber makes one read() or one write()
NextAdjust ==
    \/ \E f \in Fibers, r \in {"reader", "writer"} : QRun(f, r, 1)
    \/ \E f \in Fibers : QRead(f)
    \/ \E f \in Fibers : QWrite(f)
    \/ \E f \in Fibers : QReturn(f)
    \/ \E force \in BOOLEAN : QPutCall(force)
    \/ QEnd
    \/ \E fn \in AdjustFns : QAdjust(fn)
    \/ QImmediate
    \/ QTick

SpecAdjust == InitQueueSpec /\ [][NextAdjust]_vars

----------------------------------------------------------------------------
(* fibers running user code: wait on callback-style operations and on      *)
(* promises, withContext, nested run, return and throw                     *)

NumUsers == 2
MaxWaits == 2
MaxWith == 2
Contexts == {1, 2}
Vals == {1, 2}
ErrOp == "operation failed"
ErrUser == "thrown by fn"

\* run(fn), from an event-loop callback or from the code of a running fiber;
\* fibers are numbered in the order they are created
URun(f) ==
    /\ pc[f] = "unborn" /\ f <= NumUsers
    /\ \A g \in Fibers : g < f => pc[g] # "unborn"
    /\ IF stack = <<>> THEN TRUE ELSE pc[Head(stack).fiber] = "u"
    /\ pc' = [pc EXCEPT ![f] = "u"]
    /\ role' = [role EXCEPT ![f] = "user"]
    /\ RunSpawn(f)
    /\ cx0' = [cx0 EXCEPT ![f] = context]
    /\ UNCHANGED <<wcx, ret, promise, immq, tickq, pend>>
    /\ UNCHANGED <<userVars, cxarg, notUserCx>>

\* wait(cb => operation(cb)): the operation is started and will call cb later
UWaitThunk(f) ==
    /\ Current = f /\ pc[f] = "u" /\ nwaits < MaxWaits
    /\ nwaits' = nwaits + 1
    /\ cxBefore' = [cxBefore EXCEPT ![f] = context]
    /\ wres' = [wres EXCEPT ![f] = NoWait]
    /\ awaited' = [awaited EXCEPT ![f] = NoRet]
    /\ pend' = pend \cup {f}
    /\ pc' = [pc EXCEPT ![f] = "w"]
    /\ WaitYield(f)
    /\ UNCHANGED <<role, ret, promise, immq, tickq>>
    /\ UNCHANGED <<ppend, cxstack, exc, nwith, result, notUser>>

\* UWaitThunkSync whose callback resumes the fiber at once, without nextTick:
\* fiber.run / throwInto is called on the fiber that is running
UWaitThunkSyncNoDefer(f, e, v) ==
    /\ Current = f /\ pc[f] = "u" /\ nwaits < MaxWaits
    /\ nwaits' = nwaits + 1
    /\ cxBefore' = [cxBefore EXCEPT ![f] = context]
    /\ wres' = [wres EXCEPT ![f] = NoWait]
    /\ awaited' = [awaited EXCEPT ![f] = [err |-> e, val |-> v]]
    /\ pc' = [pc EXCEPT ![f] = "r"]
    /\ Resume(Cb(f, e, v))
    /\ UNCHANGED <<role, wcx, promise, immq, tickq, pend>>
    /\ UNCHANGED <<ppend, cxstack, exc, nwith, result, notUser>>

\* wait(cb => cb(e, v)): the thunk calls cb before wait has yielded
UWaitThunkSync(f, e, v) ==
    /\ Current = f /\ pc[f] = "u" /\ nwaits < MaxWaits
    /\ nwaits' = nwaits + 1
    /\ cxBefore' = [cxBefore EXCEPT ![f] = context]
    /\ wres' = [wres EXCEPT ![f] = NoWait]
    /\ awaited' = [awaited EXCEPT ![f] = [err |-> e, val |-> v]]
    /\ tickq' = Append(tickq, Cb(f, e, v))
    /\ pc' = [pc EXCEPT ![f] = "w"]
    /\ WaitYield(f)
    /\ UNCHANGED <<role, ret, promise, immq, pend>>
    /\ UNCHANGED <<ppend, cxstack, exc, nwith, result, notUser>>

\* wait(promise): then and catch handlers are attached
UWaitPromise(f) ==
    /\ Current = f /\ pc[f] = "u" /\ nwaits < MaxWaits
    /\ nwaits' = nwaits + 1
    /\ cxBefore' = [cxBefore EXCEPT ![f] = context]
    /\ wres' = [wres EXCEPT ![f] = NoWait]
    /\ awaited' = [awaited EXCEPT ![f] = NoRet]
    /\ ppend' = ppend \cup {f}
    /\ pc' = [pc EXCEPT ![f] = "w"]
    /\ WaitYield(f)
    /\ UNCHANGED <<role, ret, promise, immq, tickq, pend>>
    /\ UNCHANGED <<cxstack, exc, nwith, result, notUser>>

\* the operation completes: cb(e, v) defers the resumption to the next tick
UComplete(f, e, v) ==
    /\ ExtComplete(f, e, v)
    /\ awaited' = [awaited EXCEPT ![f] = [err |-> e, val |-> v]]
    /\ UNCHANGED <<ppend, cxstack, exc, nwaits, nwith, wres, cxBefore, result, notUser>>

\* USettle that leaves the handlers attached: the fiber can be resumed again
USettleKeepsPending(f, e, v) ==
    /\ stack = <<>> /\ f \in ppend
    /\ ppend' = ppend
    /\ awaited' = [awaited EXCEPT ![f] = [err |-> e, val |-> v]]
    /\ Resume(Cb(f, e, v))
    /\ pc' = [pc EXCEPT ![f] = AfterWait(pc[f])]
    /\ UNCHANGED <<role, wcx, promise, immq, tickq, pend>>
    /\ UNCHANGED <<cxstack, exc, nwaits, nwith, wres, cxBefore, result, notUser>>

\* the promise settles: the then handler (e = "") or the catch handler runs
\* as a job of the event loop and resumes the fiber
USettle(f, e, v) ==
    /\ stack = <<>> /\ f \in ppend
    /\ ppend' = ppend \ {f}
    /\ awaited' = [awaited EXCEPT ![f] = [err |-> e, val |-> v]]
    /\ Resume(Cb(f, e, v))
    /\ pc' = [pc EXCEPT ![f] = AfterWait(pc[f])]
    /\ UNCHANGED <<role, wcx, promise, immq, tickq, pend>>
    /\ UNCHANGED <<cxstack, exc, nwaits, nwith, wres, cxBefore, result, notUser>>

\* wait returns what fiber.run delivered or throws what throwInto injected
UWaitReturn(f) ==
    /\ Current = f /\ pc[f] = "r"
    /\ IF ret[f].err # ""
       THEN /\ pc' = [pc EXCEPT ![f] = "exc"]
            /\ exc' = [exc EXCEPT ![f] = ret[f].err]
            /\ wres' = [wres EXCEPT ![f] =
                            [kind |-> "raise", err |-> ret[f].err, val |-> 0]]
       ELSE /\ pc' = [pc EXCEPT ![f] = "u"]
            /\ wres' = [wres EXCEPT ![f] =
                            [kind |-> "ret", err |-> "", val |-> ret[f].val]]
            /\ UNCHANGED exc
    /\ cxBefore' = [cxBefore EXCEPT ![f] = MainCx]
    /\ ret' = [ret EXCEPT ![f] = NoRet]
    /\ UNCHANGED <<role, stack, context, wcx, promise, immq, tickq, pend>>
    /\ UNCHANGED <<ppend, cxstack, nwaits, nwith, awaited, result, notUser>>

\* the argument undefined, and the object Object.create(c) makes out of c
Undef == -1
Wrap(c) == c + 10

\* the withContext calls that enclose the handler f is executing, if any:
\* they cannot end before the handler does
EhBase(f) == IF eh[f] = <<>> THEN 0 ELSE Head(eh[f]).depth

\* withContext(fn, cx), up to the call of fn
UWithContext(f, cx) ==
    /\ Current = f /\ pc[f] = "u" /\ nwith < MaxWith
    /\ nwith' = nwith + 1
    /\ cxstack' = [cxstack EXCEPT ![f] = <<context>> \o @]
    /\ cxarg' = [cxarg EXCEPT ![f] = <<cx>> \o @]
    /\ context' = IF cx = Undef THEN Wrap(context) ELSE cx
    /\ UNCHANGED <<pc, role, stack, wcx, ret, promise, immq, tickq, pend>>
    /\ UNCHANGED <<ppend, exc, nwaits, awaited, wres, cxBefore, result, cx0, notUserCx>>

\* UWithContextExit without the finally: oldContext is not put back
UWithContextExitNoRestore(f) ==
    /\ Current = f /\ pc[f] \in {"u", "exc"} /\ Len(cxstack[f]) > EhBase(f)
    /\ cxstack' = [cxstack EXCEPT ![f] = Tail(@)]
    /\ cxarg' = [cxarg EXCEPT ![f] = Tail(@)]
    /\ UNCHANGED <<pc, role, stack, context, wcx, ret, promise, immq, tickq, pend>>
    /\ UNCHANGED <<ppend, exc, nwaits, nwith, awaited, wres, cxBefore, result, cx0,
                   notUserCx>>

\* fn returns (pc = "u") or lets an error through (pc = "exc"): the finally of
\* withContext puts oldContext back
UWithContextExit(f) ==
    /\ Current = f /\ pc[f] \in {"u", "exc"} /\ Len(cxstack[f]) > EhBase(f)
    /\ context' = Head(cxstack[f])
    /\ cxstack' = [cxstack EXCEPT ![f] = Tail(@)]
    /\ cxarg' = [cxarg EXCEPT ![f] = Tail(@)]
    /\ UNCHANGED <<pc, role, stack, wcx, ret, promise, immq, tickq, pend>>
    /\ UNCHANGED <<ppend, exc, nwaits, nwith, awaited, wres, cxBefore, result, cx0,
                   notUserCx>>

\* user code throws
UThrow(f) ==
    /\ Current = f /\ pc[f] = "u"
    /\ pc' = [pc EXCEPT ![f] = "exc"]
    /\ exc' = [exc EXCEPT ![f] = ErrUser]
    /\ UNCHANGED <<role, stack, context, wcx, ret, promise, immq, tickq, pend>>
    /\ UNCHANGED <<ppend, cxstack, nwaits, nwith, awaited, wres, cxBefore, result, notUser>>

\* user code catches the error that is propagating
UCatch(f) ==
    /\ Current = f /\ pc[f] = "exc"
    /\ pc' = [pc EXCEPT ![f] = "u"]
    /\ exc' = [exc EXCEPT ![f] = ""]
    /\ UNCHANGED <<role, stack, context, wcx, ret, promise, immq, tickq, pend>>
    /\ UNCHANGED <<ppend, cxstack, nwaits, nwith, awaited, wres, cxBefore, result, notUser>>

\* fn returns v: resolve(fn())
UReturn(f, v) ==
    /\ Current = f /\ pc[f] = "u" /\ cxstack[f] = <<>> /\ eh[f] = <<>>
    /\ pc' = [pc EXCEPT ![f] = "done"]
    /\ result' = [result EXCEPT ![f] = v]
    /\ FiberEnd(f, Resolved(v))
    /\ wcx' = [wcx EXCEPT ![f] = MainCx]
    /\ awaited' = [awaited EXCEPT ![f] = NoRet]
    /\ wres' = [wres EXCEPT ![f] = NoWait]
    /\ UNCHANGED <<role, ret, immq, tickq, pend>>
    /\ cx0' = [cx0 EXCEPT ![f] = MainCx]
    /\ UNCHANGED <<ppend, cxstack, exc, nwaits, nwith, cxBefore, cxarg, notUserCx>>

\* the error leaves fn: catch (e) { reject(e) }
UFail(f) ==
    /\ Current = f /\ pc[f] = "exc" /\ cxstack[f] = <<>> /\ eh[f] = <<>>
    /\ pc' = [pc EXCEPT ![f] = "failed"]
    /\ FiberEnd(f, Rejected(exc[f]))
    /\ wcx' = [wcx EXCEPT ![f] = MainCx]
    /\ awaited' = [awaited EXCEPT ![f] = NoRet]
    /\ wres' = [wres EXCEPT ![f] = NoWait]
    /\ UNCHANGED <<role, ret, immq, tickq, pend>>
    /\ cx0' = [cx0 EXCEPT ![f] = MainCx]
    /\ UNCHANGED <<ppend, cxstack, exc, nwaits, nwith, cxBefore, result, cxarg, notUserCx>>

UTick == Tick /\ UNCHANGED <<userVars, notUser>>

ErrNoFiber == "cannot wait: no fiber"
ErrNoFiberCx == "withContext(fn) not allowed outside run()"
notTop == <<funnelVars, funnelHist, hkVars, queueVars, queueHist, mapVars, cxHist,
            adjVars, ehVars>>

\* UWaitNoFiber that tests fibers.current after it called the thunk
UWaitNoFiberLate ==
    /\ stack = <<>> /\ nwaits < MaxWaits
    /\ nwaits' = nwaits + 1
    /\ pend' = pend \cup {0}
    /\ toperrs' = toperrs \cup {ErrNoFiber}
    /\ UNCHANGED <<pc, role, stack, context, wcx, ret, promise, immq, tickq>>
    /\ UNCHANGED <<ppend, cxstack, exc, nwith, awaited, wres, cxBefore, result, notTop>>

\* wait(thunk or promise) called by an event-loop callback, outside any fiber
UWaitNoFiber ==
    /\ stack = <<>> /\ nwaits < MaxWaits
    /\ nwaits' = nwaits + 1
    /\ toperrs' = toperrs \cup {ErrNoFiber}
    /\ UNCHANGED engineVars
    /\ UNCHANGED <<ppend, cxstack, exc, nwith, awaited, wres, cxBefore, result, notTop>>

\* withContext(fn, cx) called by an event-loop callback, outside any fiber
UWithContextNoFiber(cx) ==
    /\ stack = <<>> /\ nwith < MaxWith
    /\ nwith' = nwith + 1
    /\ toperrs' = toperrs \cup {ErrNoFiberCx}
    /\ UNCHANGED engineVars
    /\ UNCHANGED <<ppend, cxstack, exc, nwaits, awaited, wres, cxBefore, result, notTop>>

InitWait ==
    InitEngine /\ InitFunnel /\ InitHk /\ InitQueue /\ InitUser /\ InitMap
        /\ fmax = -1 /\ qmax = -1

NextWait ==
    \/ \E f \in Fibers : URun(f)
    \/ \E f \in Fibers : UWaitThunk(f)
    \/ \E f \in Fibers, v \in Vals : UWaitThunkSync(f, "", v)
    \/ \E f \in Fibers : UWaitThunkSync(f, ErrOp, 0)
    \/ \E f \in Fibers : UWaitPromise(f)
    \/ \E f \in Fibers, v \in Vals : UComplete(f, "", v)
    \/ \E f \in Fibers : UComplete(f, ErrOp, 0)
    \/ \E f \in Fibers, v \in Vals : USettle(f, "", v)
    \/ \E f \in Fibers : USettle(f, ErrOp, 0)
    \/ \E f \in Fibers : UWaitReturn(f)
    \/ \E f \in Fibers, cx \in Contexts : UWithContext(f, cx)
    \/ \E f \in Fibers : UWithContextExit(f)
    \/ \E f \in Fibers : UThrow(f)
    \/ \E f \in Fibers : UCatch(f)
    \/ \E f \in Fibers, v \in Vals : UReturn(f, v)
    \/ \E f \in Fibers : UFail(f)
    \/ UTick

SpecWait == InitWait /\ [][NextWait]_vars

----------------------------------------------------------------------------
(* the same fibers, with every kind of cx argument and with calls made
   outside any fiber *)

CxArgs == Contexts \cup {Undef}

NextContext ==
    \/ \E f \in Fibers : URun(f)
    \/ \E f \in Fibers : UWaitThunk(f)
    \/ \E f \in Fibers : UComplete(f, "", 1)
    \/ \E f \in Fibers : UComplete(f, ErrOp, 0)
    \/ \E f \in Fibers : UWaitReturn(f)
    \/ \E f \in Fibers, cx \in CxArgs : UWithContext(f, cx)
    \/ \E f \in Fibers : UWithContextExit(f)
    \/ \E f \in Fibers : UThrow(f)
    \/ \E f \in Fibers : UReturn(f, 1)
    \/ \E f \in Fibers : UFail(f)
    \/ UTick
    \/ UWaitNoFiber
    \/ \E cx \in CxArgs : UWithContextNoFiber(cx)

SpecContext == InitWait /\ [][NextContext]_vars

----------------------------------------------------------------------------
(* functions wrapped by eventHandler, called by the code of a fiber and by
   event-loop callbacks *)

MaxCalls == 2

\* the object a {} literal makes at the n-th call: none that existed before
NewCx(n) == 100 + n

notEh == <<funnelVars, funnelHist, hkVars, queueVars, queueHist, mapVars, topVars,
           adjVars>>

\* EHCall that takes the run branch whether a fiber is running or not
EHCallAlwaysRuns(g) ==
    /\ ncalls < MaxCalls
    /\ ncalls' = ncalls + 1
    /\ pc[g] = "unborn"
    /\ \A h \in Fibers : h < g => pc[h] # "unborn"
    /\ IF stack = <<>> THEN TRUE ELSE pc[Head(stack).fiber] = "u"
    /\ pc' = [pc EXCEPT ![g] = "u"]
    /\ role' = [role EXCEPT ![g] = "handler"]
    /\ stack' = <<[fiber |-> g, saved |-> context, by |-> "run"]>> \o stack
    /\ context' = NewCx(ncalls + 1)
    /\ cx0' = [cx0 EXCEPT ![g] = context]
    /\ cxstack' = [cxstack EXCEPT ![g] = <<context>>]
    /\ cxarg' = [cxarg EXCEPT ![g] = <<NewCx(ncalls + 1)>>]
    /\ eh' = [eh EXCEPT ![g] = <<[caller |-> Current, cx |-> context, depth |-> 1]>>]
    /\ UNCHANGED <<wcx, ret, promise, immq, tickq, pend>>
    /\ UNCHANGED <<ppend, exc, nwaits, nwith, awaited, wres, cxBefore, result, notEh>>

\* EHCall whose run branch calls the handler without withContext
EHCallNoContext(g) ==
    /\ ncalls < MaxCalls
    /\ ncalls' = ncalls + 1
    /\ IF stack # <<>>
       THEN /\ Current = g /\ pc[g] = "u"
            /\ eh' = [eh EXCEPT ![g] =
                         <<[caller |-> g, cx |-> context,
                            depth |-> Len(cxstack[g])]>> \o @]
            /\ UNCHANGED <<pc, role, stack, context, cx0, cxstack, cxarg>>
       ELSE /\ pc[g] = "unborn"
            /\ \A h \in Fibers : h < g => pc[h] # "unborn"
            /\ pc' = [pc EXCEPT ![g] = "u"]
            /\ role' = [role EXCEPT ![g] = "handler"]
            /\ stack' = <<[fiber |-> g, saved |-> context, by |-> "run"]>> \o stack
            /\ context' = context
            /\ cx0' = [cx0 EXCEPT ![g] = context]
            /\ cxstack' = [cxstack EXCEPT ![g] = <<context>>]
            /\ cxarg' = [cxarg EXCEPT ![g] = <<context>>]
            /\ eh' = [eh EXCEPT ![g] = <<[caller |-> 0, cx |-> context, depth |-> 1]>>]
    /\ UNCHANGED <<wcx, ret, promise, immq, tickq, pend>>
    /\ UNCHANGED <<ppend, exc, nwaits, nwith, awaited, wres, cxBefore, result, notEh>>

\* wrapped(...args): with a fiber running (canWait()) the handler is called
\* in it; otherwise run(() => withContext(() => handler(...), {})) starts
\* fiber g, which enters withContext and calls the handler
EHCall(g) ==
    /\ ncalls < MaxCalls
    /\ ncalls' = ncalls + 1
    /\ IF stack # <<>>
       THEN /\ Current = g /\ pc[g] = "u"
            /\ eh' = [eh EXCEPT ![g] =
                         <<[caller |-> g, cx |-> context,
                            depth |-> Len(cxstack[g])]>> \o @]
            /\ UNCHANGED <<pc, role, stack, context, cx0, cxstack, cxarg>>
       ELSE /\ pc[g] = "unborn"
            /\ \A h \in Fibers : h < g => pc[h] # "unborn"
            /\ pc' = [pc EXCEPT ![g] = "u"]
            /\ role' = [role EXCEPT ![g] = "handler"]
            /\ stack' = <<[fiber |-> g, saved |-> context, by |-> "run"]>> \o stack
            /\ context' = NewCx(ncalls + 1)
            /\ cx0' = [cx0 EXCEPT ![g] = context]
            /\ cxstack' = [cxstack EXCEPT ![g] = <<context>>]
            /\ cxarg' = [cxarg EXCEPT ![g] = <<NewCx(ncalls + 1)>>]
            /\ eh' = [eh EXCEPT ![g] = <<[caller |-> 0, cx |-> context, depth |-> 1]>>]
    /\ UNCHANGED <<wcx, ret, promise, immq, tickq, pend>>
    /\ UNCHANGED <<ppend, exc, nwaits, nwith, awaited, wres, cxBefore, result, notEh>>

\* the handler called in the fiber of its caller returns, or lets an error
\* through to its caller
EHReturn(f) ==
    /\ Current = f /\ pc[f] \in {"u", "exc"}
    /\ eh[f] # <<>> /\ Head(eh[f]).caller # 0
    /\ Len(cxstack[f]) = Head(eh[f]).depth
    /\ eh' = [eh EXCEPT ![f] = Tail(@)]
    /\ UNCHANGED <<engineVars, userVars, cxHist, ncalls, notEh>>

\* the handler run in its own fiber returns or throws: withContext's finally
\* puts oldContext back, the promise of run settles and the fiber is over
EHEnd(g) ==
    /\ Current = g /\ pc[g] \in {"u", "exc"}
    /\ eh[g] # <<>> /\ Head(eh[g]).caller = 0
    /\ Len(cxstack[g]) = Head(eh[g]).depth
    /\ eh' = [eh EXCEPT ![g] = <<>>]
    /\ cxstack' = [cxstack EXCEPT ![g] = <<>>]
    /\ cxarg' = [cxarg EXCEPT ![g] = <<>>]
    /\ cx0' = [cx0 EXCEPT ![g] = MainCx]
    /\ pc' = [pc EXCEPT ![g] = IF pc[g] = "u" THEN "done" ELSE "failed"]
    /\ FiberEnd(g, IF pc[g] = "u" THEN Resolved(0) ELSE Rejected(exc[g]))
    /\ wcx' = [wcx EXCEPT ![g] = MainCx]
    /\ awaited' = [awaited EXCEPT ![g] = NoRet]
    /\ wres' = [wres EXCEPT ![g] = NoWait]
    /\ UNCHANGED <<role, ret, immq, tickq, pend>>
    /\ UNCHANGED <<ppend, exc, nwaits, nwith, cxBefore, result, ncalls, notEh>>

NextEvent ==
    \/ \E f \in Fibers : URun(f)
    \/ \E g \in Fibers : EHCall(g)
    \/ \E f \in Fibers : EHReturn(f)
    \/ \E g \in Fibers : EHEnd(g)
    \/ \E f \in Fibers : UWaitThunk(f)
    \/ \E f \in Fibers : UComplete(f, "", 1)
    \/ \E f \in Fibers : UWaitReturn(f)
    \/ \E f \in Fibers, cx \in Contexts : UWithContext(f, cx)
    \/ \E f \in Fibers : UWithContextExit(f)
    \/ \E f \in Fibers : UThrow(f)
    \/ \E f \in Fibers : UReturn(f, 1)
    \/ \E f \in Fibers : UFail(f)
    \/ UTick

SpecEvent == InitWait /\ [][NextEvent]_vars

----------------------------------------------------------------------------

(* map(collection, fn), with fn = item => fun(() => { sleep; return }) *)

Mapper == 1

\* Promise.all storing a value in completion order instead of by index
AllStoreInOrder(res, i, v) ==
    LET k == CHOOSE j \in 1..Len(res) :
                 res[j] = 0 /\ \A l \in 1..(j - 1) : res[l] # 0
    IN [res EXCEPT ![k] = v]

\* Promise.all: the value of the i-th promise goes to index i of the array
AllStore(res, i, v) == [res EXCEPT ![i] = v]

\* run(() => map(...)) from the event loop
MRun ==
    /\ stack = <<>> /\ pc[Mapper] = "unborn"
    /\ pc' = [pc EXCEPT ![Mapper] = "map"]
    /\ role' = [role EXCEPT ![Mapper] = "mapper"]
    /\ RunSpawn(Mapper)
    /\ UNCHANGED <<wcx, ret, promise, immq, tickq, pend>>
    /\ UNCHANGED <<funnelVars, funnelHist, notFunnel>>

\* collection.map(item => run(() => fn(item))), one item: the new fiber runs
\* on top of the mapper until it yields or ends
MSpawn(f) ==
    /\ Current = Mapper /\ pc[Mapper] = "map"
    /\ pc[f] = "unborn" /\ \A g \in Fibers : g < f => pc[g] # "unborn"
    /\ pc' = [pc EXCEPT ![f] = "call"]
    /\ role' = [role EXCEPT ![f] = "caller"]
    /\ mkids' = Append(mkids, f)
    /\ flog' = Append(flog, Ev("call", f))
    /\ RunSpawn(f)
    /\ UNCHANGED <<wcx, ret, promise, immq, tickq, pend>>
    /\ UNCHANGED <<funnelVars, atClose, notMap>>
    /\ UNCHANGED <<allp, mres, mseen, mapout>>

\* wait(Promise.all(promises)), up to the yield
MWaitAll ==
    /\ Current = Mapper /\ pc[Mapper] = "map" /\ mkids # <<>>
    /\ allp' = [state |-> "pending", err |-> ""]
    /\ mres' = [i \in 1..Len(mkids) |-> 0]
    /\ pc' = [pc EXCEPT ![Mapper] = "mwait"]
    /\ WaitYield(Mapper)
    /\ UNCHANGED <<role, ret, promise, immq, tickq, pend>>
    /\ UNCHANGED <<funnelVars, funnelHist, notMap>>
    /\ UNCHANGED <<mkids, mseen, mapout>>

\* a job of the event loop: Promise.all reacts to its i-th promise, settled
MCollect(i) ==
    /\ stack = <<>> /\ allp.state # "none"
    /\ i \in 1..Len(mkids) /\ i \notin mseen
    /\ promise[mkids[i]].state # "pending"
    /\ mseen' = mseen \cup {i}
    /\ LET p == promise[mkids[i]] IN
       IF allp.state # "pending" THEN UNCHANGED <<allp, mres>>
       ELSE IF p.state = "rejected"
            THEN allp' = [state |-> "rejected", err |-> p.err] /\ UNCHANGED mres
            ELSE /\ mres' = AllStore(mres, i, p.val)
                 /\ allp' = [allp EXCEPT !.state =
                               IF mseen' = 1..Len(mkids) THEN "resolved" ELSE @]
    /\ UNCHANGED <<engineVars, funnelVars, funnelHist>>
    /\ UNCHANGED <<notMap, mkids, mapout>>

\* a job of the event loop: the then or the catch handler of wait resumes the
\* mapper
MSettle ==
    /\ stack = <<>> /\ pc[Mapper] = "mwait"
    /\ allp.state \in {"resolved", "rejected"}
    /\ Resume(Cb(Mapper, allp.err, 0))
    /\ pc' = [pc EXCEPT ![Mapper] = "mret"]
    /\ UNCHANGED <<role, wcx, promise, immq, tickq, pend>>
    /\ UNCHANGED <<funnelVars, funnelHist, notFunnel>>

\* wait, and so map, returns the array or raises; the run body ends with it
MReturn ==
    /\ Current = Mapper /\ pc[Mapper] = "mret"
    /\ IF ret[Mapper].err # ""
       THEN /\ mapout' = [kind |-> "raise", err |-> ret[Mapper].err, val |-> <<>>]
            /\ pc' = [pc EXCEPT ![Mapper] = "failed"]
            /\ FiberEnd(Mapper, Rejected(ret[Mapper].err))
       ELSE /\ mapout' = [kind |-> "ret", err |-> "", val |-> mres]
            /\ pc' = [pc EXCEPT ![Mapper] = "done"]
            /\ FiberEnd(Mapper, Resolved(0))
    /\ UNCHANGED <<role, wcx, ret, immq, tickq, pend>>
    /\ UNCHANGED <<funnelVars, funnelHist>>
    /\ UNCHANGED <<notMap, mkids, allp, mres, mseen>>

InitMapSpec ==
    InitEngine /\ InitFunnel /\ InitHk /\ InitQueue /\ InitUser /\ InitMap /\ qmax = -1

NextMap ==
    \/ MRun
    \/ \E f \in Fibers : MSpawn(f)
    \/ MWaitAll
    \/ \E i \in 1..NumFibers : MCollect(i)
    \/ MSettle
    \/ MReturn
    \/ \E f \in Fibers : FunCall(f)
    \/ \E f \in Fibers : OverflowResume(f)
    \/ \E f \in Fibers : FnSleep(f)
    \/ \E f \in Fibers, e \in {"", ErrFn} : FnExit(f, e)
    \/ \E f \in Fibers : FTimer(f)
    \/ Close
    \/ FImmediate
    \/ FTick

SpecMap == InitMapSpec /\ [][NextMap]_vars

----------------------------------------------------------------------------
\* C1: for a funnel created with max > 0, the number of callers executing
\* their fn inside the funnel (running or suspended in it) never exceeds max,
\* in every interleaving of arrivals, wake-ups, exits by return or throw.
C1_FunnelBound ==
    fmax > 0 => Cardinality({f \in Fibers : InFn(f)}) <= fmax

\* the funnel is full while a woken waiter and a queued waiter are behind it
C1_Witness ==
    /\ fmax = 1
    /\ \E f, g \in Fibers : InFn(f) /\ pc[g] = "woken"

\* C9: a handshake buffers exactly one notification.  After k >= 1 notify()
\* calls made since the last wait() while no fiber was blocked, the next wait()
\* is resumed without a further notify(); a wait() called with no such notify()
\* behind it (the one after a buffered notification was consumed, too) stays
\* blocked for as long as no further notify() is made.
C9_BuffersOne ==
    \A f \in Fibers : pc[f] = "hwait" =>
        /\ hkAt[f].since >= 1 => f \in Scheduled
        /\ (hkAt[f].since = 0 /\ hkNotifies = hkAt[f].notifies) => f \notin Scheduled

\* two notify() calls were buffered as one: a fiber got through its first
\* wait() on them and is blocked in its second
C9_Witness ==
    \E f \in Fibers :
        /\ Blocked(f) /\ hkNotifies = 2 /\ hkOps = 4
        /\ hkAt[f].since = 0 /\ hkAt[f].notifies = 2
        /\ \A g \in Fibers \ {f} : pc[g] = "unborn"

\* C10: hk.wait() called while another fiber's waiter is registered fails in
\* the caller with 'already waiting' and leaves the registered waiter in
\* place, with nothing scheduled; the next notify() releases that waiter.
C10_SecondWaitFails ==
    [][hkOps' # hkOps /\ hk.callback # 0 =>
          IF hkLast'.op = "wait"
          THEN /\ pc'[hkLast'.fiber] = "failed"
               /\ promise'[hkLast'.fiber] = Rejected(ErrWaiting)
               /\ hk' = hk /\ immq' = immq
               /\ pc'[hk.callback] = "hwait"
          ELSE /\ immq' = Append(immq, Cb(hk.callback, "", 0))
               /\ hk'.callback = 0]_vars

\* a second wait failed, and the first waiter was then notified and resumed
C10_Witness ==
    \E f, g \in Fibers :
        /\ promise[f] = Rejected(ErrWaiting)
        /\ hkAt[g].notifies < hkNotifies /\ pc[g] = "huser" /\ hkOps = 3

IsPrefix(a, b) == Len(a) <= Len(b) /\ \A i \in 1..Len(a) : a[i] = b[i]

\* C2: Queue delivery is FIFO.  The items read() has returned so far are, in
\* order, the first of the items written by write or put, a writer that was
\* blocked on a full queue counting from its release.
C2_Fifo == IsPrefix(readlog, written)

\* the system has come to rest: nothing runs and nothing is scheduled
Quiescent == stack = <<>> /\ immq = <<>> /\ tickq = <<>> /\ pend = {}

\* C6: on a Queue of capacity max >= 1, when one fiber makes n write() calls
\* and another n read() calls and nothing else uses the queue, the system
\* comes to rest only with both fibers completed and the queue empty.
C6_BothComplete ==
    \A w, r \in Fibers :
        (/\ qmax >= 1 /\ Quiescent
         /\ role[w] = "writer" /\ role[r] = "reader" /\ todo0[w] = todo0[r]
         /\ \A g \in Fibers \ {w, r} : pc[g] = "unborn"
         /\ nputs = 0 /\ nends = 0)
        => pc[w] = "done" /\ pc[r] = "done" /\ q = <<>>

\* C7: a write() on a full queue (length >= max >= 0 and no reader waiting)
\* is not resumed as long as no read() has removed an item since the call; a
\* write() on a queue that is not full is scheduled to return by the call
\* itself, whatever reads follow.
C7_WriteBlocksWhenFull ==
    \A f \in Fibers : (role[f] = "writer" /\ pc[f] = "qwait") =>
        /\ (wAt[f].full /\ nremoved = wAt[f].removed) => f \notin Scheduled
        /\ ~wAt[f].full => f \in Scheduled

\* a writer found the queue full, and is back from write() after a read()
C7_Witness ==
    \E f \in Fibers :
        /\ role[f] = "writer" /\ pc[f] = "quser" /\ Current = f
        /\ wAt[f].full /\ nremoved > wAt[f].removed

\* C8: put(item, force) returns true exactly when a reader is waiting, or
\* max < 0, or length < max, or force is set.  When it returns false the
\* queue, the pending reader and the pending writers are unchanged and
\* nothing is scheduled.  When a reader is waiting the item goes to that
\* reader, the reader slot is cleared and the backing sequence is unchanged;
\* otherwise an accepted item is appended to the backing sequence.
C8_Put ==
    [][nputs' # nputs =>
        LET ok == qcb # 0 \/ qmax < 0 \/ Len(q) < qmax \/ lastPut'.force IN
        /\ lastPut'.ok = ok
        /\ ~ok => /\ q' = q /\ qcb' = qcb /\ pendingWrites' = pendingWrites
                  /\ immq' = immq
        /\ qcb # 0 => /\ q' = q /\ qcb' = 0
                      /\ immq' = Append(immq, Cb(qcb, "", lastPut'.item))
        /\ (ok /\ qcb = 0) => /\ q' = Append(q, lastPut'.item)
                               /\ qcb' = 0 /\ immq' = immq]_vars

\* a put was handed to a waiting reader, and a later put without force was
\* refused by the full queue
C8_Witness ==
    /\ nputs = 3 /\ ~lastPut.ok /\ ~lastPut.force
    /\ qmax = 1 /\ q = <<2>> /\ readlog = <<1>>

\* C3: whenever wait returns or raises in a fiber, context() is what it was in
\* that fiber just before the call, whatever fibers ran under other contexts
\* in between.
C3_ContextKept ==
    \A f \in Fibers : pc[f] = "r" => context = cxBefore[f]

\* wait is about to raise in a fiber that called it inside withContext, while
\* another fiber is suspended under another context
C3_Witness ==
    \E f, g \in Fibers :
        /\ pc[f] = "r" /\ ret[f].err # "" /\ cxBefore[f] = 1
        /\ pc[g] = "w" /\ wcx[g] = 2

\* C4: wait returns v when the awaited promise resolved with v or the thunk's
\* callback reported (no error, v), and raises e at its call site when the
\* promise rejected with e or the callback reported the error e.
C4_WaitDelivers ==
    \A f \in Fibers : wres[f].kind # "none" =>
        IF awaited[f].err = ""
        THEN wres[f] = [kind |-> "ret", err |-> "", val |-> awaited[f].val]
        ELSE wres[f] = [kind |-> "raise", err |-> awaited[f].err, val |-> 0]

\* the second wait of a run has just raised the error of its operation at
\* its call site
C4_Witness ==
    \E f \in Fibers :
        /\ nwaits = 2 /\ pc[f] = "exc" /\ exc[f] = ErrOp
        /\ awaited[f] = [err |-> ErrOp, val |-> 0]
        /\ wres[f] = [kind |-> "raise", err |-> ErrOp, val |-> 0]

\* C5: the promise of run(fn) is pending while fn runs, resolved with fn's
\* return value once fn returned, and rejected with e once fn threw e (an
\* error raised by wait and not caught included); the step that ends fn
\* throws nothing into the caller of run or any other fiber.
C5_RunSettles ==
    /\ [](\A f \in Fibers :
            /\ pc[f] = "done" => promise[f] = Resolved(result[f])
            /\ pc[f] = "failed" => promise[f] = Rejected(exc[f])
            /\ pc[f] \notin {"done", "failed"} => promise[f] = Pending)
    /\ [][\A f \in Fibers :
            (pc'[f] # pc[f] /\ pc'[f] \in {"done", "failed"}) =>
                \A g \in Fibers \ {f} : pc'[g] = pc[g] /\ exc'[g] = exc[g]]_vars

\* a fiber failed on an error raised by wait, another one returned a value
C5_Witness ==
    \E f, g \in Fibers :
        /\ pc[f] = "failed" /\ promise[f] = Rejected(ErrOp)
        /\ pc[g] = "done" /\ promise[g] = Resolved(2)

\* the fibers of the events ev of the funnel's log, in order
Fibs(ev) ==
    LET s == SelectSeq(flog, LAMBDA x : x.ev = ev)
    IN [i \in 1..Len(s) |-> s[i].fiber]

\* the positions of the events ev of fiber f in the funnel's log
Idx(ev, f) == {i \in 1..Len(flog) : flog[i] = Ev(ev, f)}

First(S) == CHOOSE i \in S : \A j \in S : i <= j

C13_NoStartAfterClose ==
    [][closed =>
        /\ Len(Fibs("start")') = Len(Fibs("start"))
        /\ \A f \in Fibers :
              (pc[f] \in {"call", "woken"} /\ pc'[f] # pc[f]) =>
                  pc'[f] = "failed" /\ promise'[f] = Rejected(ErrClosed)]_vars

\* after close, a waiter that an exiting caller had notified before close and
\* a new caller have both failed with 'funnel has been closed'
C13_Witness ==
    /\ closed
    /\ \E f \in atClose.notified, g \in Fibers :
        /\ pc[f] = "failed" /\ promise[f] = Rejected(ErrClosed)
        /\ Idx("enq", g) = {} /\ Idx("start", g) = {}
        /\ pc[g] = "failed" /\ promise[g] = Rejected(ErrClosed)

\* C14: blocked callers are woken in the order they were enqueued: the
\* handshakes notified so far are, in order, the first ones enqueued, and the
\* exit of an admitted caller with a non-empty queue notifies and removes
\* exactly the head of the queue.
C14_WakeInOrder ==
    /\ [] IsPrefix(Fibs("wake"), Fibs("enq"))
    /\ [][\A f \in Fibers : (admitted[f] /\ ~admitted'[f] /\ fqueue # <<>>) =>
            /\ fqueue' = Tail(fqueue)
            /\ immq' = Append(immq, Cb(Head(fqueue), "", 0))
            /\ Fibs("wake")' = Append(Fibs("wake"), Head(fqueue))]_vars

\* two callers were queued, the first has been woken by an exit, the second
\* is still queued
C14_Witness ==
    /\ ~closed /\ Len(Fibs("enq")) = 2 /\ Len(Fibs("wake")) = 1
    /\ Len(fqueue) = 1 /\ fqueue[1] = Fibs("enq")[2]

\* C15 as stated: admission is FIFO for blocked callers.  If A blocked before
\* B blocked, B does not begin its fn before A; a caller that arrives after A
\* blocked does not begin its fn before A.
C15_FifoAdmission ==
    ~closed =>
        \A a, b \in Fibers :
            (/\ a # b /\ Idx("enq", a) # {} /\ Idx("start", b) # {}
             /\ \/ Idx("enq", b) # {} /\ First(Idx("enq", a)) < First(Idx("enq", b))
                \/ First(Idx("enq", a)) < First(Idx("call", b)))
            => /\ Idx("start", a) # {}
               /\ First(Idx("start", a)) < First(Idx("start", b))

\* C15 amended: admission is FIFO among the blocked callers that were not
\* overtaken.  If A was enqueued before B and each was enqueued only once
\* (its retry after the wake-up found a free slot), B does not begin its fn
\* before A.
C15_FifoIfNotOvertaken ==
    \A a, b \in Fibers :
        (/\ a # b /\ Cardinality(Idx("enq", a)) = 1 /\ Cardinality(Idx("enq", b)) = 1
         /\ First(Idx("enq", a)) < First(Idx("enq", b))
         /\ Idx("start", b) # {})
        => /\ Idx("start", a) # {}
           /\ First(Idx("start", a)) < First(Idx("start", b))

\* two callers blocked one after the other and both went through their fn
C15_Witness ==
    \E a, b \in Fibers :
        /\ a # b /\ Cardinality(Idx("enq", a)) = 1 /\ Cardinality(Idx("enq", b)) = 1
        /\ First(Idx("enq", a)) < First(Idx("enq", b))
        /\ Idx("start", a) # {} /\ Idx("start", b) # {}

\* C12: a funnel of max 1 is closed while calls dispatched by map are queued
\* and no fn throws.  map returns an array: the value of fn for the calls
\* admitted before close, no value for the calls queued at close.
C12_MapAfterClose ==
    (/\ fmax = 1 /\ closed /\ atClose.queued # {} /\ atClose.notified = {}
     /\ \A i \in 1..Len(mkids) : promise[mkids[i]] # Rejected(ErrFn)
     /\ pc[Mapper] \in {"done", "failed"})
    => /\ mapout.kind = "ret"
       /\ \A i \in 1..Len(mkids) :
            mapout.val[i] = IF Idx("start", mkids[i]) # {} THEN mkids[i] ELSE 0

\* C16: map returns the array whose i-th element is what fn returned for the
\* i-th item of the collection, in whatever order the calls of fn completed.
C16_MapInOrder ==
    mapout.kind = "ret" =>
        mapout.val = [i \in 1..Len(mkids) |-> promise[mkids[i]].val]

\* map has returned and the call for the second item completed before the
\* call for the first
C16_Witness ==
    /\ mapout.kind = "ret" /\ Len(mkids) = 2
    /\ First(Idx("exit", mkids[2])) < First(Idx("exit", mkids[1]))

\* C17: wait called outside any fiber throws 'cannot wait: no fiber' before
\* it touches the awaitable: no operation is started, no callback scheduled,
\* no handler attached, no fiber resumed.  withContext called outside any
\* fiber throws as well, without calling fn or changing the context.
C17_NoFiber ==
    [][stack = <<>> =>
        /\ nwaits' # nwaits =>
            /\ ErrNoFiber \in toperrs'
            /\ pend' = pend /\ ppend' = ppend /\ awaited' = awaited
            /\ tickq' = tickq /\ immq' = immq /\ stack' = <<>> /\ pc' = pc
        /\ nwith' # nwith =>
            /\ ErrNoFiberCx \in toperrs'
            /\ context' = context /\ cxstack' = cxstack
            /\ stack' = <<>> /\ pc' = pc]_vars

\* both calls were made outside any fiber while a fiber was suspended in wait
\* under a context of its own
C17_Witness ==
    /\ toperrs = {ErrNoFiber, ErrNoFiberCx} /\ stack = <<>>
    /\ \E f \in Fibers : pc[f] = "w" /\ wcx[f] # MainCx

RECURSIVE Eff(_, _)
\* the context in force inside the withContext calls of arguments args
\* (innermost first) made from the context base
Eff(args, base) ==
    IF args = <<>> THEN base
    ELSE IF Head(args) = Undef THEN Wrap(Eff(Tail(args), base)) ELSE Head(args)

\* C19 as stated: inside withContext(fn, cx) context() is cx, and outside of
\* every withContext it is the context the fiber started with, whenever the
\* fiber runs.
C19_ContextIsArg ==
    \A f \in Fibers : (Current = f /\ pc[f] \in {"u", "exc", "r"}) =>
        context = IF cxarg[f] = <<>> THEN cx0[f] ELSE Head(cxarg[f])

\* C19 amended: inside withContext(fn, cx) context() is cx when cx is truthy
\* and a fresh object made from the context of the caller when cx is falsy;
\* once withContext returned or threw, context() is again what it was before
\* the call; this at every nesting depth and across the suspensions in wait.
C19_ContextScoped ==
    \A f \in Fibers :
        /\ (Current = f /\ pc[f] \in {"u", "exc", "r"}) =>
               context = Eff(cxarg[f], cx0[f])
        /\ Len(cxstack[f]) = Len(cxarg[f])
        /\ \A i \in 1..Len(cxstack[f]) :
               cxstack[f][i] = Eff(SubSeq(cxarg[f], i + 1, Len(cxarg[f])), cx0[f])

\* a fiber is back from a wait inside two nested withContext calls, the outer
\* one with a falsy cx, while another fiber is suspended under another context
C19_Witness ==
    \E f, g \in Fibers :
        /\ Current = f /\ pc[f] \in {"u", "exc"} /\ nwaits >= 1 /\ wres[f].kind # "none"
        /\ Len(cxarg[f]) = 2 /\ cxarg[f][2] = Undef /\ cxarg[f][1] # Undef
        /\ pc[g] = "w" /\ wcx[g] # context

\* the fibers that are being executed, fibers.current first
Running == [i \in 1..Len(stack) |-> stack[i].fiber]

\* C20: a fiber is resumed only once it has yielded.  Every resumption is
\* made by the event loop (no fiber is running), of a fiber that is suspended
\* in wait; when the thunk calls its callback synchronously the resumption
\* is only queued for a later tick, and the fiber yields first.  So no fiber
\* is ever resumed while it is running.
C20_ResumeAfterYield ==
    /\ [](\A i, j \in 1..Len(stack) : i # j => stack[i].fiber # stack[j].fiber)
    /\ [][\A f \in Fibers :
            (/\ Len(stack') = Len(stack) + 1 /\ Head(stack').fiber = f
             /\ pc[f] # "unborn")
            => /\ stack = <<>> /\ pc[f] = "w" /\ pc'[f] = "r"
               /\ \/ tickq # <<>> /\ Head(tickq).fiber = f /\ tickq' = Tail(tickq)
                  \/ f \in ppend]_vars

\* the thunk of fiber 2 called its callback synchronously: fiber 2 has
\* yielded, its resumption waits in the nextTick queue and fiber 1, which
\* ran it, is still running
C20_Witness ==
    /\ Running = <<1>> /\ pc[1] = "u" /\ pc[2] = "w" /\ nwaits = 1
    /\ tickq # <<>> /\ Head(tickq).fiber = 2 /\ pend = {} /\ ppend = {}

\* C18: read() called while another read is pending fails with 'already
\* getting' and changes nothing in the queue: the pending reader stays
\* registered, and the next item put, written or the end marker is handed to it.
C18_SecondReadFails ==
    [][qcb # 0 =>
        /\ \A f \in Fibers :
            (role[f] = "reader" /\ todo'[f] < todo[f]) =>
                /\ pc'[f] = "failed" /\ promise'[f] = Rejected(ErrGetting)
                /\ qcb' = qcb /\ q' = q /\ pendingWrites' = pendingWrites
                /\ immq' = immq /\ pc'[qcb] = "qwait"
        /\ (nitems' # nitems \/ nends' # nends) =>
                /\ qcb' = 0 /\ q' = q /\ Len(immq') > Len(immq)
                /\ immq'[Len(immq) + 1] =
                       Cb(qcb, "", IF nitems' # nitems THEN nitems' ELSE 0)]_vars

\* a fiber made its only read() on the empty queue, the read() of another
\* fiber failed meanwhile, and the first one then got the item that was put
C18_Witness ==
    \E f, g \in Fibers :
        /\ role[f] = "reader" /\ todo0[f] = 1 /\ pc[f] \in {"quser", "done"}
        /\ promise[g] = Rejected(ErrGetting)
        /\ readlog = <<1>> /\ nitems = 1 /\ nends = 0

\* C23: end() always succeeds.  In every state of the queue the end marker
\* (undefined, 0 here) is handed to the reader that is waiting, or else
\* appended to the backing sequence, full or not.
C23_EndNeverDropped ==
    [][nends' # nends =>
        IF qcb # 0
        THEN /\ qcb' = 0 /\ q' = q
             /\ immq' = Append(immq, Cb(qcb, "", 0))
        ELSE /\ q' = Append(q, 0) /\ qcb' = 0 /\ immq' = immq]_vars

\* end() was called on a full queue, which is now over its capacity
C23_Witness ==
    /\ nends = 1 /\ qmax >= 1 /\ Len(q) > qmax /\ q[Len(q)] = 0

\* the callbacks of s that release a writer blocked in write(): they carry
\* the item of that write
Released(s) == SelectSeq(s, LAMBDA c : role[c.fiber] = "writer" /\ c.val # 0)

\* the items of the writers blocked in write(), those about to return first;
\* items are numbered in the order of the write() calls
WaitItems ==
    LET rel == Released(tickq \o immq) IN
    [i \in 1..Len(rel) |-> rel[i].val]
        \o [i \in 1..Len(pendingWrites) |-> pendingWrites[i].item]

Increasing(s) == \A i, j \in 1..Len(s) : i < j => s[i] < s[j]

\* C26: a read() that removes an item while writers are blocked releases
\* exactly one of them, the one blocked the longest; blocked writers return
\* from write() in the order in which they blocked.
C26_OldestWriterFirst ==
    /\ []Increasing(WaitItems)
    /\ [][/\ (nremoved' # nremoved /\ pendingWrites # <<>>) =>
                /\ pendingWrites' = Tail(pendingWrites)
                /\ Len(immq') = Len(immq) + 2
                /\ immq'[Len(immq')] = Cb(Head(pendingWrites).fiber, "",
                                          Head(pendingWrites).item)
          /\ (tickq # <<>> /\ tickq' = Tail(tickq)
                /\ Released(<<Head(tickq)>>) # <<>>) =>
                \A i \in 1..Len(WaitItems') : WaitItems'[i] > Head(tickq).val]_vars

\* two writers were blocked before any read, and both are back from write()
C26_Witness ==
    \E f, g \in Fibers :
        /\ f # g /\ role[f] = "writer" /\ role[g] = "writer"
        /\ wAt[f].full /\ wAt[g].full /\ wAt[f].removed = 0 /\ wAt[g].removed = 0
        /\ pc[f] \in {"quser", "done"} /\ pc[g] \in {"quser", "done"}
        /\ todo[f] < todo0[f] /\ todo[g] < todo0[g]
        /\ nremoved = 2

Count(s, i) == Cardinality({k \in 1..Len(s) : s[k] = i})

\* the deliveries of item i to a read() that are on their way
InFlight(i) ==
    Cardinality({k \in 1..Len(tickq \o immq) :
                    LET c == (tickq \o immq)[k] IN
                    role[c.fiber] = "reader" /\ c.val = i})

\* C27: writes are never lost or duplicated.  Every item whose write() has
\* returned, a write that was blocked and released included, is in the
\* backing sequence or has gone to exactly one read().
C27_NoWriteLost ==
    \A i \in wdone : Count(q, i) + InFlight(i) + Count(readlog, i) = 1

\* C28: a Queue never deadlocks a reader against a writer.  In no reachable
\* state, whatever max >= 0, is a reader registered waiting for an item while
\* a writer is blocked in the pending-writer list.
C28_NoReaderWriterDeadlock ==
    qmax >= 0 => ~(qcb # 0 /\ pendingWrites # <<>>)

\* C29 as stated: after any sequence of read, put, write, end and adjust
\* operations, a reader is registered only while the backing sequence is
\* empty.
C29_ReaderOnlyWhenEmpty == qcb # 0 => q = <<>>

\* C29: a reader is registered only while the backing sequence is empty, as
\* long as no adjust() has installed a non-empty sequence while a reader was
\* registered.
C29_ReaderOnlyWhenEmptyUnlessAdjusted == (qcb # 0 /\ ~adjFilled) => q = <<>>

\* a reader is registered on a queue that was emptied by adjust()
C29_Witness ==
    /\ qcb # 0 /\ ~adjFilled /\ nadj = 1 /\ q = <<>>
    /\ written # <<>> /\ readlog = <<>> /\ nends = 0

\* C25 as stated: on a funnel created with max < 0 every call fun(fn) calls
\* fn at once in the calling fiber, without blocking and without admission
\* bookkeeping, whatever was done to the funnel before.
C25_UnlimitedAlwaysCalls ==
    [][fmax < 0 =>
        \A f \in Fibers : (pc[f] = "call" /\ pc'[f] # "call") =>
            /\ pc'[f] = "infn" /\ stack' = stack
            /\ active' = active /\ admitted' = admitted
            /\ fqueue' = fqueue /\ hs' = hs]_vars

\* C25: on a funnel created with max < 0 that has not been closed every call
\* fun(fn) calls fn at once in the calling fiber, without blocking and
\* without admission bookkeeping, whatever the number of callers inside; once
\* the funnel is closed every call fails with 'funnel has been closed'.
C25_UnlimitedCallsUnlessClosed ==
    [][fmax < 0 =>
        \A f \in Fibers : (pc[f] = "call" /\ pc'[f] # "call") =>
            /\ active' = active /\ admitted' = admitted
            /\ fqueue' = fqueue /\ hs' = hs
            /\ IF closed
               THEN pc'[f] = "failed" /\ promise'[f] = Rejected(ErrClosed)
               ELSE pc'[f] = "infn" /\ stack' = stack]_vars

\* every fiber is executing fn at the same time in an unlimited funnel
C25_Witness ==
    /\ fmax < 0 /\ \A f \in Fibers : InFn(f)
    /\ active = 0 /\ fqueue = <<>>

\* C30: a funnel with max > 0 that is never closed strands no caller: with
\* finitely many callers whose fn all terminate, every call fun(fn) leads to
\* fn being executed and to the caller returning, in every interleaving.
C30_NoCallerStranded ==
    \A f \in Fibers :
        (fmax > 0 /\ pc[f] = "call") ~>
            (pc[f] \in {"done", "failed"} /\ Idx("start", f) # {}
                /\ Idx("exit", f) # {})

\* a caller that had to queue twice, overtaken once, has executed fn and
\* returned
C30_Witness ==
    \E f \in Fibers :
        /\ fmax > 0 /\ ~closed /\ pc[f] = "done"
        /\ Cardinality(Idx("enq", f)) = 2 /\ Cardinality(Idx("wake", f)) = 2

\* C24: run(fn) leaves the context of its caller alone.  The new fiber
\* starts with the context current in the caller, and when run returns, at
\* the first suspension or at the end of the new fiber, context() in the
\* caller is what it was before the call, whatever withContext calls the new
\* fiber made meanwhile.
C24_RunKeepsContext ==
    [][/\ \A f \in Fibers : (pc[f] = "unborn" /\ pc'[f] # "unborn") =>
            /\ Current' = f /\ context' = context
       /\ (stack # <<>> /\ stack' = Tail(stack) /\ Head(stack).by = "run") =>
            context' = cx0[Head(stack).fiber]]_vars

\* a fiber running under context 1 called run; the new fiber entered
\* withContext(fn, 2) and suspended there, and its caller goes on
C24_Witness ==
    \E f, g \in Fibers :
        /\ f # g /\ Current = g /\ pc[g] = "u" /\ context = 1
        /\ nwaits = 1 /\ pc[f] = "w" /\ cx0[f] = 1
        /\ cxarg[f] = <<2>> /\ wcx[f] = 2

\* C21: a function wrapped by eventHandler and called in a running fiber
\* calls the handler in that fiber: no fiber is started, the handler's waits
\* suspend the caller, and the handler ends in the caller's fiber.  Called
\* outside any fiber it starts a new fiber for the handler, and the call
\* returns to its caller when that fiber first suspends or ends, the handler
\* finished or not.
C21_EventHandler ==
    /\ [](\A f \in Fibers :
            (eh[f] # <<>> /\ Head(eh[f]).caller # 0 /\ pc[f] = "w") =>
                /\ Head(eh[f]).caller = f
                /\ \A i \in 1..Len(stack) : stack[i].fiber # f)
    /\ [][/\ ncalls' # ncalls =>
                IF stack # <<>>
                THEN /\ stack' = stack /\ pc' = pc
                     /\ Len(eh'[Current]) = Len(eh[Current]) + 1
                     /\ Head(eh'[Current]).caller = Current
                ELSE \E g \in Fibers :
                        /\ pc[g] = "unborn" /\ pc'[g] = "u" /\ Current' = g
                        /\ eh'[g] # <<>> /\ Head(eh'[g]).caller = 0
                        /\ promise'[g] = Pending
          /\ \A f \in Fibers :
                (Len(eh'[f]) < Len(eh[f]) /\ Head(eh[f]).caller # 0) =>
                    Current = f /\ Current' = f
          /\ (stack # <<>> /\ stack' = Tail(stack) /\ Head(stack).by = "run"
                /\ role[Head(stack).fiber] = "handler") => stack' = <<>>]_vars

\* a handler called in a fiber is suspended in wait, and its caller with it;
\* a handler called outside any fiber is suspended too, and the call that
\* started it has returned
C21_Witness ==
    \E f, g \in Fibers :
        /\ role[f] = "user" /\ pc[f] = "w"
        /\ eh[f] # <<>> /\ Head(eh[f]).caller = f
        /\ role[g] = "handler" /\ pc[g] = "w" /\ eh[g] # <<>>
        /\ stack = <<>>

\* every context that exists: the current one and those kept to be restored
KnownCx ==
    {MainCx, context} \cup Contexts
        \cup {wcx[f] : f \in Fibers}
        \cup {stack[i].saved : i \in 1..Len(stack)}
        \cup UNION {{cxstack[f][i] : i \in 1..Len(cxstack[f])} : f \in Fibers}

\* C22: a handler called in a running fiber starts with the context of its
\* caller.  A handler called outside any fiber starts with a new context,
\* not null and none that existed before, and when the call returns the
\* context of the code that made it is what it was.
C22_EventHandlerContext ==
    [][/\ ncalls' # ncalls =>
            IF stack # <<>>
            THEN context' = context
            ELSE context' # Undef /\ context' \notin KnownCx
       /\ (stack # <<>> /\ stack' = Tail(stack) /\ Head(stack).by = "run"
            /\ role[Head(stack).fiber] = "handler") =>
            LET g == Head(stack).fiber IN
            /\ stack' = <<>>
            /\ context' = eh[g][Len(eh[g])].cx]_vars

\* a handler started outside any fiber is suspended under its new context,
\* the code outside is back under the initial context, and a handler called
\* by a fiber inside withContext(fn, 1) runs under context 1
C22_Witness ==
    \E f, g \in Fibers :
        /\ role[g] = "handler" /\ pc[g] = "w" /\ wcx[g] = NewCx(1)
        /\ Current = f /\ role[f] = "user" /\ context = 1
        /\ eh[f] # <<>> /\ Head(eh[f]).cx = 1 /\ cxarg[f] = <<1>>

\* C36: in every reachable state of a handshake the registered waiter callback
\* and the buffered 'notified' flag are not both set; this holds for the
\* handshakes a funnel queues for its blocked callers as well.
C36_NotBoth ==
    /\ ~(hk.callback # 0 /\ hk.notified)
    /\ \A f \in Fibers : ~(hs[f].callback # 0 /\ hs[f].notified)

\* a notification is buffered after a registered waiter was released by an
\* earlier notify() and has returned from its wait()
C36_Witness ==
    \E f \in Fibers :
        /\ hk.notified /\ hk.callback = 0
        /\ pc[f] = "huser" /\ hkAt[f].since = 0 /\ hkAt[f].notifies < hkNotifies
        /\ hkNotifies = 2

\* C34 as stated: at most one fiber is suspended inside hk.wait(), a waiter
\* that was notified and has not resumed yet included
C34_OneSuspended ==
    Cardinality({f \in Fibers : pc[f] = "hwait"}) <= 1

\* C34: at most one waiter is registered on a handshake at a time: at most one
\* fiber is suspended in hk.wait() with no resumption on its way, and it is
\* the fiber the handshake's callback belongs to.  A waiter that was notified
\* and has not resumed yet is not counted: while it awaits resumption another
\* fiber may call wait() and be registered.
C34_OneRegistered ==
    /\ Cardinality({f \in Fibers : Blocked(f)}) <= 1
    /\ \A f \in Fibers : Blocked(f) <=> hk.callback = f

\* a waiter was notified and awaits its resumption while a second fiber has
\* called wait() and is registered
C34_Witness ==
    \E f, g \in Fibers :
        /\ pc[f] = "hwait" /\ f \in Scheduled
        /\ Blocked(g) /\ hk.callback = g

\* the hk.wait() calls that have returned: the calls made, less those that
\* failed with 'already waiting' and those whose fiber is still suspended
HkWaitsReturned ==
    (hkOps - hkNotifies)
        - Cardinality({f \in Fibers : pc[f] = "hwait"})
        - Cardinality({f \in Fibers : promise[f] = Rejected(ErrWaiting)})

\* C35: a handshake never wakes a waiter spuriously.  The hk.wait() calls that
\* have returned are never more than the notify() calls made so far, and the
\* resumption of a registered waiter is scheduled by a notify() step only,
\* one made after the waiter registered.
C35_NoSpuriousWake ==
    /\ [](HkWaitsReturned <= hkNotifies)
    /\ [][\A f \in Fibers :
            (Blocked(f) /\ f \in Scheduled') =>
                /\ hkNotifies' = hkNotifies + 1
                /\ hkNotifies' > hkAt[f].notifies
                /\ hk.callback = f]_vars

\* two wait() calls have returned on two notify() calls, the second of them
\* made while its waiter was registered
C35_Witness ==
    /\ HkWaitsReturned = 2 /\ hkNotifies = 2
    /\ \E f \in Fibers : pc[f] = "huser" /\ hkAt[f].since = 0

\* a formerly queued caller on its way back to tryEnter: it was notified and
\* awaits its resumption, or it has just resumed and is about to call tryEnter
OnTheWay(f) ==
    \/ pc[f] = "ovf" /\ \A i \in 1..Len(fqueue) : fqueue[i] # f
    \/ pc[f] = "woken"

\* C31: an open funnel with max > 0 never leaves a slot idle with nobody on
\* the way.  In every state where blocked callers are queued, active equals
\* max or a formerly queued caller has been notified and has not entered yet;
\* and a caller that arrives while active < max is admitted without blocking.
C31_NoIdleSlot ==
    /\ []((fmax > 0 /\ ~closed /\ fqueue # <<>>) =>
            (active = fmax \/ \E f \in Fibers : OnTheWay(f)))
    /\ [][\A f \in Fibers :
            (pc[f] = "call" /\ pc'[f] # "call" /\ fmax > 0 /\ ~closed
                /\ active < fmax) =>
                /\ pc'[f] = "infn" /\ active' = active + 1
                /\ fqueue' = fqueue]_vars

\* max = 1: the only slot is free and a caller is still queued, while the
\* caller that was at the head of the queue is notified and awaits resumption
C31_Witness ==
    /\ fmax = 1 /\ ~closed /\ active = 0 /\ fqueue # <<>>
    /\ \E f \in Fibers : pc[f] = "ovf" /\ f \in Scheduled /\ OnTheWay(f)

\* C32: the funnel's active count equals the number of callers between their
\* admission by tryEnter and the exit of their fn (none is admitted when
\* max < 0).  It goes down by one when an admitted caller's fn returns or
\* throws, the error reaching that caller; close() leaves it alone; it is 0
\* when no caller is executing fn.
C32_ActiveCount ==
    /\ [](active = IF fmax < 0 THEN 0
                   ELSE Cardinality({f \in Fibers : InFn(f)}))
    /\ [][/\ \A f \in Fibers :
               (InFn(f) /\ pc'[f] \in {"done", "failed"}) =>
                  /\ active' = IF fmax < 0 THEN 0 ELSE active - 1
                  /\ pc'[f] = "failed" => promise'[f] = Rejected(ErrFn)
                  /\ pc'[f] = "done" => promise'[f] = Resolved(f)
          /\ closed' # closed => active' = active]_vars

\* the funnel was closed with two callers inside fn; the fn of one of them
\* has thrown since, and the other is still inside
C32_Witness ==
    \E f, g \in Fibers :
        /\ closed /\ atClose.infn = {f, g} /\ f # g
        /\ promise[f] = Rejected(ErrFn) /\ InFn(g) /\ active = 1

\* the resumptions f has coming: an operation that will call its callback, a
\* promise whose handlers are attached, a resumption queued for the next tick
ToCome(f) ==
    (IF f \in pend THEN 1 ELSE 0) + (IF f \in ppend THEN 1 ELSE 0)
        + Cardinality({i \in 1..Len(tickq) : tickq[i].fiber = f})

\* C33: a wait whose callback or promise completes once resumes its fiber
\* exactly once, with that completion's value or error.  A fiber suspended in
\* wait has exactly one resumption to come and a fiber that is not has none,
\* so no wait is resumed twice; a fiber is resumed out of a wait only, after
\* the awaited operation completed, and gets what the operation completed with.
C33_ResumedOnce ==
    /\ [](\A f \in Fibers : ToCome(f) = IF pc[f] = "w" THEN 1 ELSE 0)
    /\ [][\A f \in Fibers :
            (pc[f] # "r" /\ pc'[f] = "r") =>
                /\ pc[f] = "w"
                /\ awaited'[f] # NoRet /\ ret'[f] = awaited'[f]
                /\ f \notin ppend => (awaited[f] = awaited'[f] /\ f \notin pend)
                /\ ToCome(f)' = 0]_vars

\* the second wait of a run has been resumed with the value its operation
\* completed with, while the other fiber, whose operation has not completed,
\* stays suspended
C33_Witness ==
    \E f, g \in Fibers :
        /\ pc[f] = "r" /\ nwaits = 2 /\ ret[f] = [err |-> "", val |-> 2]
        /\ awaited[f] = ret[f]
        /\ pc[g] = "w" /\ g \in pend /\ awaited[g] = NoRet

\* C37: on a Queue with max >= 0 that is used through read(), write() and
\* put() without force only (no end(), no adjust()), the number of queued
\* items never exceeds max.
C37_NeverOverMax ==
    qmax >= 0 => Len(q) <= qmax

\* max = 1 and the queue holds one item: a writer is blocked on the full
\* queue and a put() has been refused since
C37_Witness ==
    /\ qmax = 1 /\ Len(q) = 1 /\ pendingWrites # <<>>
    /\ nputs > 0 /\ ~lastPut.ok /\ lastPut.item = nitems

====
